---- MODULE Spec2Model ----
(***************************************************************************)
(* A model of moisespsena-go/go-logging: the leveled backend (module ->    *)
(* level table, gate, dispatch), the fan-out over several sinks, the       *)
(* sequence counter, the Record's lazily cached views, the asynchronous    *)
(* delivery wrapper of the file and HTTP sinks and the path-keyed file     *)
(* sink cache.                                                             *)
(*                                                                         *)
(* Strings that the code takes apart are sequences of tokens: a module     *)
(* name is the sequence of its segments and of the "." between them, a     *)
(* message is the sequence of the pieces fmt writes.                       *)
(***************************************************************************)
EXTENDS Integers, Sequences, FiniteSets, TLC

(***************************************************************************)
(* Bounds of the model.                                                    *)
(***************************************************************************)
\* SetLevel calls in one behaviour of SpecLevel
MaxSetLevel == 2
\* backends handed to one SetBackend call
MaxSinks == 3
\* Log calls dispatched in one behaviour of SpecMulti
MaxCalls == 2

(***************************************************************************)
(* Levels (level.go, not among the source files): ordinals in the order    *)
(* of the level names, CRITICAL first.                                     *)
(***************************************************************************)
CRITICAL == 0
ERROR == 1
WARNING == 2
NOTICE == 3
INFO == 4
DEBUG == 5

Levels == CRITICAL..DEBUG

(***************************************************************************)
(* Module names.                                                           *)
(***************************************************************************)
Dot == "."

\* the module of the diagnostic logger log_ of package backends
BackendsModule == <<"github", Dot, "com/moisespsena-go/logging/backends">>

ModuleNames ==
    { <<>>,
      <<"svc">>,
      <<"svc", Dot, "api">>,
      <<"svc", Dot, "api", Dot, "http">>,
      <<"svc", Dot, "worker">>,
      <<"svc", Dot>>,
      <<Dot, "api">>,
      BackendsModule }

\* the index of the last "." of m, 0 when there is none
LastDot(m) ==
    LET dots == {i \in 1..Len(m) : m[i] = Dot}
    IN  IF dots = {} THEN 0 ELSE CHOOSE i \in dots : \A j \in dots : j <= i

\* m without its last dot-delimited segment
TrimLastSegment(m) ==
    IF LastDot(m) = 0 THEN <<>> ELSE SubSeq(m, 1, LastDot(m) - 1)

NotFound == [found |-> FALSE, level |-> DEBUG]

\* the entry of the table T that governs module m: m's own, else that of m
\* with its last segment trimmed, ..., else that of ""
RECURSIVE ResolveLevel(_, _)
ResolveLevel(T, m) ==
    IF m \in DOMAIN T THEN [found |-> TRUE, level |-> T[m]]
    ELSE IF m = <<>> THEN NotFound
    ELSE ResolveLevel(T, TrimLastSegment(m))

\* moduleLeveled.GetLevel
LeveledGetLevel(T, m) == ResolveLevel(T, m).level

\* moduleLeveled.IsEnabledFor
LeveledIsEnabledFor(T, level, m) ==
    LET r == ResolveLevel(T, m)
    IN  IF r.found THEN level <= r.level ELSE TRUE

\* moduleLeveled.SetLevel: the table with module's threshold upserted
LeveledSetLevel(T, level, module) ==
    [m \in DOMAIN T \cup {module} |-> IF m = module THEN level ELSE T[m]]

\* AddModuleLevel: a leveled backend over backend, its table empty
EmptyTable == [m \in {} |-> DEBUG]

(***************************************************************************)
(* Sinks and the fan-out (multi.go, not among the source files).           *)
(***************************************************************************)
\* n sinks s1..sn, each named by its place in the list
SinkList(n) == [i \in 1..n |-> i]

\* the backend lists a SetBackend call is given here
BackendLists == {SinkList(n) : n \in 0..MaxSinks}

\* the error a backend's Log returns: nil, or the errors of the sinks that failed
Nil == [nil |-> TRUE, errors |-> <<>>]
ErrorOf(errs) == [nil |-> FALSE, errors |-> errs]

\* MultiLogger(backends...).Log: every sink's Log in turn, in the given order;
\* the errors collected. failing: the positions whose sink fails this call.
RECURSIVE MultiLog(_, _, _)
MultiLog(backs, failing, i) ==
    IF i > Len(backs) THEN [delivered |-> <<>>, errs |-> <<>>]
    ELSE LET rest == MultiLog(backs, failing, i + 1)
         IN  [delivered |-> <<backs[i]>> \o rest.delivered,
              errs |-> (IF i \in failing THEN <<i>> ELSE <<>>) \o rest.errs]

\* Log of a backend as SetBackend built it
BackendLog(b, failing) ==
    IF b.multi
    THEN LET r == MultiLog(b.sinks, failing, 1)
         IN  [delivered |-> r.delivered,
              err |-> IF r.errs = <<>> THEN Nil ELSE ErrorOf(r.errs)]
    ELSE [delivered |-> <<b.sinks[1]>>,
          err |-> IF 1 \in failing THEN ErrorOf(<<1>>) ELSE Nil]

(***************************************************************************)
(* State.                                                                  *)
(***************************************************************************)
VARIABLES
    \* the process-wide state of package logging
    levels,        \* defaultBackend's module -> level table
    backend,       \* the backend defaultBackend wraps: [multi, sinks]
    given,         \* the backends the last SetBackend call was given
    sequenceNo,    \* the record sequence counter
    lastCall,      \* the last Log.log call run to its end: its input and effect
    nSetLevel,     \* SetLevel calls so far
    nCalls,        \* Log.log calls run to their end so far
    \* concurrently running log calls
    pc,            \* where each caller is in its log call
    call,          \* each caller's call: kind, module, level, the record's ID
    created,       \* the IDs of the records created, in creation order
    epochStart,    \* how many records had been created at the last Reset
    \* package backends: the file sinks
    fileMap,       \* path -> the cached *FileBackend
    instances,     \* the FileBackend values built so far
    opened,        \* the files os.Create / os.OpenFile opened so far
    fpc,           \* where each caller is in its NewFileBackend call
    fcall,         \* each caller's NewFileBackend call: path, options, handle
    returned,      \* what the NewFileBackend calls returned, in order
    \* Records
    recs,          \* the Record values there are (a shallow copy is one more)
    arrays,        \* the backing arrays of the Args slices
    runs,          \* per Record: how often its message was redacted and formatted
    fmtRuns,       \* per Record: how often its formatter was invoked
    lastMsg,       \* per Record: what its last Message() or Data() call returned
    lastOp,        \* the last call on a Record: what it returned and changed
    \* package backends: the asynchronous delivery
    sinkAsync,     \* the Async field of the file sink and of the HTTP sink
    httpFormatted, \* the Formatted field of the HTTP sink
    tasks,         \* the goroutines the Log calls of asynchronous sinks started
    calls,         \* the Log calls made on the two sinks, with what they returned
    \* the proxy DefaultBackendProxy returns
    proxy,         \* whether it was made, the default backend then, its last call
    \* one synchronous sink and its callers
    sync,          \* per caller its position and call; the writes; the returns
    \* Print of the two sinks
    prints,        \* the caller's argument slice, the Print calls, their goroutines
    \* the registry of loggers
    registry,      \* loggers (SyncedLoggers), the Logs made, the callers, the returns
    \* a caller of Fatal, Panic and Critical
    term,          \* the process's end, the caller's position and call
    \* a logger with a backend of its own
    own,           \* whether it has one, that backend's table, the last call
    \* the clock of the Records
    clock,         \* timeNow, and whether a test has replaced it so far
    \* a prefix logger
    prefixer       \* its prefix field, the last SetPrefix argument, the last call

coreVars == <<levels, backend, given, sequenceNo, lastCall, nSetLevel, nCalls>>
procVars == <<pc, call, created, epochStart>>

fileVars == <<fileMap, instances, opened, fpc, fcall, returned>>

recVars == <<recs, arrays, runs, fmtRuns, lastMsg, lastOp>>

asyncVars == <<sinkAsync, httpFormatted, tasks, calls>>

\* the default-backend proxy
restVars == <<proxy, sync, prints, registry, term, own, prefixer>>

moreVars == <<restVars, clock>>

vars == <<coreVars, procVars, fileVars, recVars, asyncVars, moreVars>>

NoCall == [kind |-> "none"]

\* NewLogBackend(os.Stderr, "", log.LstdFlags), the one sink of Reset
Stderr == SinkList(1)

\* Reset(), which init() runs
AfterReset ==
    /\ sequenceNo = 0
    /\ backend = [multi |-> FALSE, sinks |-> Stderr]
    /\ given = Stderr
    /\ levels = LeveledSetLevel(EmptyTable, DEBUG, <<>>)

\* bounds of SpecProcs: callers, and records created in one behaviour
NProcs == 2
MaxCreated == 3

Procs == 1..NProcs

NoRecord == 0

\* a goroutine in no log call
NoLogCall == [kind |-> "none", module |-> <<>>, level |-> DEBUG, id |-> NoRecord]

InitProcs ==
    /\ pc = [p \in Procs |-> "idle"]
    /\ call = [p \in Procs |-> NoLogCall]
    /\ created = <<>>
    /\ epochStart = 0

\* bounds of SpecFile: files opened and calls returned in one behaviour
MaxOpens == 2
MaxReturns == 3

Paths == {"a.log", "b.log"}

FileOptions == [Async : BOOLEAN, Truncate : BOOLEAN]

NoInstance == 0

NoFileCall == [path |-> "", options |-> [Async |-> FALSE, Truncate |-> FALSE],
               handle |-> 0, retry |-> FALSE]

NoReturn == [path |-> "", options |-> [Async |-> FALSE, Truncate |-> FALSE],
             b |-> NoInstance, err |-> FALSE, hit |-> FALSE, retry |-> FALSE,
             flip |-> FALSE]

\* var fileMap sync.Map, and no caller in NewFileBackend
InitFile ==
    /\ fileMap = [q \in {} |-> NoInstance]
    /\ instances = <<>>
    /\ opened = <<>>
    /\ fpc = [p \in Procs |-> "idle"]
    /\ fcall = [p \in Procs |-> NoFileCall]
    /\ returned = [all |-> {}, last |-> NoReturn]

(***************************************************************************)
(* Records. A string fmt writes is the sequence of its pieces: the literal *)
(* pieces of the format and the operands as %v prints them.                *)
(***************************************************************************)
\* bounds of SpecRecord: Records (shallow copies count)
MaxRecs == 2
\* formatter invocations per Record
MaxFormatRuns == 2

\* the values a caller logs: "pw" and "creds" implement Redactor; the first
\* redacts to a string of stars (Redact), the second to a masked copy of itself,
\* which is a Redactor again
Values == {"user", "pw", "creds"}
Raw == {"pw", "creds"}

IsRedactor(v) == v \in {"pw", "creds", "creds(masked)"}

Redacted(v) ==
    CASE v = "pw" -> "***"
      [] v = "creds" -> "creds(masked)"
      [] v = "creds(masked)" -> "creds(masked)"
      [] OTHER -> v

\* the argument lists a caller passes here
ArgLists ==
    { <<>>, <<"user">>, <<"pw">>, <<"creds">>,
      <<"user", "pw">>, <<"creds", "user">>, <<"pw", "creds", "user">> }

Verb == "%v"

NilString == [nil |-> TRUE, text |-> <<>>]
StringPtr(text) == [nil |-> FALSE, text |-> text]

\* the formats a caller passes: none (Info, Error, ...), or one of these
Formats == {NilString, StringPtr(<<"login ", Verb>>)}

RECURSIVE JoinWith(_, _)
JoinWith(a, sep) ==
    IF Len(a) <= 1 THEN a ELSE <<a[1], sep>> \o JoinWith(Tail(a), sep)

\* fmt.Fprintln(&buf, args...): the operands, a space between any two, a newline
Fprintln(a) == JoinWith(a, " ") \o <<"\n">>

\* the operands that are not strings
NonStrings == {"42"}

IsString(v) == v \notin NonStrings

\* the type of an operand as %T names it: the int, the caller's two Redactor
\* types, and string, which Redact returns
TypeOf(v) ==
    CASE v \in NonStrings -> "int"
      [] v = "pw" -> "main.Password"
      [] v \in {"creds", "creds(masked)"} -> "main.Creds"
      [] OTHER -> "string"

\* the operands left over when the format is used up, each as type=value,
\* ", " between two
RECURSIVE ExtraOperands(_)
ExtraOperands(a) ==
    IF a = <<>> THEN <<>>
    ELSE <<TypeOf(a[1]), "=", a[1]>>
         \o (IF Len(a) > 1 THEN <<", ">> ELSE <<>>) \o ExtraOperands(Tail(a))

\* fmt.Fprintf(&buf, format, args...)
RECURSIVE Fprintf(_, _)
Fprintf(format, a) ==
    IF format = <<>>
    THEN IF a = <<>> THEN <<>> ELSE <<"%!(EXTRA ">> \o ExtraOperands(a) \o <<")">>
    ELSE IF Head(format) = Verb
         THEN IF a = <<>>
              THEN <<"%!v(MISSING)">> \o Fprintf(Tail(format), a)
              ELSE <<a[1]>> \o Fprintf(Tail(format), Tail(a))
         ELSE <<Head(format)>> \o Fprintf(Tail(format), a)

\* buf.Truncate(n)
Truncate(buf, n) == SubSeq(buf, 1, n)

\* the Redactor arguments left as they are
RedactArgsNone(a) == a

\* for i, arg := range r.Args { if redactor, ok := arg.(Redactor); ok
\*     { r.Args[i] = redactor.Redacted() } }
RedactArgs(a) ==
    [i \in 1..Len(a) |-> IF IsRedactor(a[i]) THEN Redacted(a[i]) ELSE a[i]]

\* the message formatted on every call
NeedsMessageAlways(rec) == TRUE

\* if r.message == nil
NeedsMessage(rec) == rec.message.nil

\* what Message writes into buf, the arguments redacted
MessageText(rec, a) ==
    IF ~rec.fmt.nil
    THEN Fprintf(rec.fmt.text, a)
    ELSE Truncate(Fprintln(a), Len(Fprintln(a)) - 1)

\* (r *Record).Message() on Record r of the Records R over the arrays A: the
\* Records and arrays after the call, what it returns, and whether it
\* redacted and formatted
RecordMessage(R, A, r) ==
    IF NeedsMessage(R[r])
    THEN LET a == RedactArgs(A[R[r].args])
             msg == MessageText(R[r], a)
         IN  [recs |-> [R EXCEPT ![r].message = StringPtr(msg)],
              arrays |-> [A EXCEPT ![R[r].args] = a],
              out |-> msg, ran |-> 1]
    ELSE [recs |-> R, arrays |-> A, out |-> R[r].message.text, ran |-> 0]

\* (r *Record).Data()
RecordData(R, A, r) ==
    LET m == RecordMessage(R, A, r)
    IN  [recs |-> m.recs, arrays |-> m.arrays, ran |-> m.ran,
         out |-> [ID |-> R[r].ID, Time |-> R[r].Time, Module |-> R[r].Module,
                  Level |-> R[r].Level, Message |-> m.out]]

\* the formatters (format.go, not among the source files): the message alone,
\* and the message after the calling function, which the call depth selects
Formatters == {"%{message}", "%{shortfunc} %{message}"}

\* Formatter.Format(calldepth, r, &buf): what it writes
Format(formatter, calldepth, msg) ==
    IF formatter = "%{message}" THEN msg
    ELSE <<"func@", ToString(calldepth), " ">> \o msg

\* (r *Record).Formatted(calldepth)
RecordFormatted(R, A, r, calldepth) ==
    IF R[r].formatted = <<>>
    THEN LET m == RecordMessage(R, A, r)
             line == Format(R[r].formatter, calldepth + 1, m.out)
         IN  [recs |-> [m.recs EXCEPT ![r].formatted = line],
              arrays |-> m.arrays, out |-> line, ran |-> m.ran, formatted |-> 1]
    ELSE [recs |-> R, arrays |-> A, out |-> R[r].formatted, ran |-> 0,
          formatted |-> 0]

NoOp == [op |-> "none"]

InitRecords ==
    /\ recs = <<>>
    /\ arrays = <<>>
    /\ runs = <<>>
    /\ fmtRuns = <<>>
    /\ lastMsg = <<>>
    /\ lastOp = NoOp

\* the sinks of package backends: a WriteCloserBackend and an HttpBackend
Sinks == {"file", "http"}

NoProxyCall == [op |-> "none", flip |-> FALSE]

\* DefaultBackendProxy not called yet
NoProxy == [made |-> FALSE, at |-> <<>>, levelsAt |-> EmptyTable, last |-> NoProxyCall]

\* no Log call made on the synchronous sink: no caller in a call (pc), none
\* counted (n), nothing written to the writer, nothing returned
NoSyncCalls == [pc |-> [p \in Procs |-> "idle"], n |-> [p \in Procs |-> 0],
                ok |-> [p \in Procs |-> TRUE], written |-> <<>>, rets |-> {}]

\* no Print call made; args: what the slice the caller passes holds
NoPrints == [args |-> <<"a">>, calls |-> {}, tasks |-> <<>>]

NoLogger == 0

\* var loggers SyncedLoggers: its map nil, no Log made (made[i] is the module
\* of Log i), no caller in GetOrCreate, nothing returned
NoLoggers == [loggers |-> [m \in {} |-> NoLogger], made |-> <<>>,
              pc |-> [p \in Procs |-> "idle"], module |-> [p \in Procs |-> <<>>],
              rets |-> {}]

\* the process running, its caller in no call
NoTermination ==
    [status |-> "running", code |-> 0, value |-> <<>>, pc |-> "idle",
     recv |-> "none", method |-> "none", fmt |-> NilString, args |-> <<>>,
     enabled |-> FALSE, handed |-> FALSE, message |-> <<>>, after |-> "none"]

\* no call made on the logger yet
NoOwnCall ==
    [op |-> "none", kind |-> "none", level |-> DEBUG, have |-> FALSE, set |-> FALSE,
     underOwn |-> FALSE, answer |-> FALSE, delivered |-> FALSE, to |-> "none",
     passed |-> <<>>, args |-> <<>>]

\* NewLogger(module): no backend of its own
NoOwn == [have |-> FALSE, levels |-> EmptyTable, set |-> FALSE, last |-> NoOwnCall]

\* no SetPrefix call made yet
NoPrefixSet == ""

\* WithPrefix(parent, "db"): &LogPrefix{parent, strings.TrimSpace(prefix) + " ->"}
NewPrefixer ==
    [prefix |-> "db ->", set |-> NoPrefixSet,
     last |-> [op |-> "none", out |-> "", text |-> <<>>]]

\* timeNow = time.Now
RealClock == [timeNow |-> "time.Now", replaced |-> FALSE]

\* nothing called yet
InitRest ==
    /\ lastCall = NoCall
    /\ nSetLevel = 0
    /\ nCalls = 0
    /\ InitProcs
    /\ InitFile
    /\ InitRecords
    /\ tasks = <<>>
    /\ calls = <<>>
    /\ proxy = NoProxy
    /\ sync = NoSyncCalls
    /\ prints = NoPrints
    /\ registry = NoLoggers
    /\ term = NoTermination
    /\ own = NoOwn
    /\ clock = RealClock
    /\ prefixer = NewPrefixer

InitCommon ==
    /\ AfterReset
    /\ InitRest

Init ==
    /\ InitCommon
    /\ sinkAsync = [s \in Sinks |-> FALSE]
    /\ httpFormatted = FALSE

\* atomic.AddUint64(&sequenceNo, 1): the new value, stored and returned
AtomicAddUint64(n) == n + 1

\* SetBackend with one backend given too many times
SetBackendFirstOnly(backends) ==
    /\ backend' = IF Len(backends) >= 1
                  THEN [multi |-> FALSE, sinks |-> <<backends[1]>>]
                  ELSE [multi |-> TRUE, sinks |-> backends]
    /\ given' = backends
    /\ levels' = EmptyTable
    /\ UNCHANGED <<sequenceNo, lastCall, nSetLevel, nCalls, procVars, fileVars, recVars, asyncVars, moreVars>>

\* SetBackend(backends...)
SetBackend(backends) ==
    /\ backend' = IF Len(backends) = 1
                  THEN [multi |-> FALSE, sinks |-> <<backends[1]>>]
                  ELSE [multi |-> TRUE, sinks |-> backends]
    /\ given' = backends
    /\ levels' = EmptyTable
    /\ UNCHANGED <<sequenceNo, lastCall, nSetLevel, nCalls, procVars, fileVars, recVars, asyncVars, moreVars>>

\* SetLevel(level, module)
SetLevel(level, module) ==
    /\ nSetLevel < MaxSetLevel
    /\ levels' = LeveledSetLevel(levels, level, module)
    /\ nSetLevel' = nSetLevel + 1
    /\ UNCHANGED <<backend, given, sequenceNo, lastCall, nCalls, procVars, fileVars, recVars, asyncVars, moreVars>>

\* Reset that keeps the default backend
ResetKeepBackend ==
    /\ sequenceNo' = 0
    /\ epochStart' = Len(created)
    /\ clock' = [clock EXCEPT !.timeNow = "time.Now"]
    /\ UNCHANGED <<levels, backend, given, lastCall, nSetLevel, nCalls, pc, call,
                   created, fileVars, recVars, asyncVars, restVars>>

\* Reset()
Reset ==
    /\ sequenceNo' = 0
    /\ backend' = [multi |-> FALSE, sinks |-> Stderr]
    /\ given' = Stderr
    /\ levels' = LeveledSetLevel(EmptyTable, DEBUG, <<>>)
    /\ epochStart' = Len(created)
    /\ UNCHANGED <<lastCall, nSetLevel, nCalls, pc, call, created, fileVars, recVars, asyncVars, restVars>>
    /\ clock' = [clock EXCEPT !.timeNow = "time.Now"]

\* Log.IsEnabledFor with the module of another logger
LogIsEnabledForDefaultModule(module, level) ==
    LeveledIsEnabledFor(levels, level, <<>>)

\* (l *Log).IsEnabledFor(level), l.Module = module
LogIsEnabledFor(module, level) ==
    LeveledIsEnabledFor(levels, level, module)

\* what (l *Log).log(lvl, format, args...) of a logger without a backend of
\* its own does, run to its end; failing: the sinks whose Log fails during it
LogLogEffect(module, lvl, failing) ==
    IF ~LogIsEnabledFor(module, lvl)
    THEN /\ lastCall' = [kind |-> "log", module |-> module, level |-> lvl,
                         enabled |-> FALSE, id |-> 0, backends |-> given,
                         failing |-> {}, delivered |-> <<>>, err |-> Nil]
         /\ UNCHANGED sequenceNo
    ELSE LET r == BackendLog(backend, failing)
         IN  /\ sequenceNo' = AtomicAddUint64(sequenceNo)
             /\ lastCall' = [kind |-> "log", module |-> module, level |-> lvl,
                             enabled |-> TRUE, id |-> AtomicAddUint64(sequenceNo),
                             backends |-> given, failing |-> failing,
                             delivered |-> r.delivered, err |-> r.err]

\* a call of one of Log's level methods (Info, Errorf, ...)
LogLog(module, lvl, failing) ==
    /\ nCalls < MaxCalls
    /\ nCalls' = nCalls + 1
    /\ LogLogEffect(module, lvl, failing)
    /\ UNCHANGED <<levels, backend, given, nSetLevel, procVars, fileVars, recVars, asyncVars, moreVars>>

(***************************************************************************)
(* Log calls of concurrent callers, a step at a time: the gate, the        *)
(* record's creation (one atomic.AddUint64), the backend's Log.            *)
(***************************************************************************)
\* the gate of Log.log and of DefaultWriter: if !l.IsEnabledFor(lvl) { return },
\* l the logger, whose Module is logger; module: the Module the Record is given
Gate(p, kind, logger, module, lvl) ==
    /\ pc[p] = "idle"
    /\ IF LogIsEnabledFor(logger, lvl)
       THEN /\ pc' = [pc EXCEPT ![p] = "create"]
            /\ call' = [call EXCEPT ![p] = [kind |-> kind, module |-> module,
                                            level |-> lvl, id |-> NoRecord]]
       ELSE UNCHANGED <<pc, call>>
    /\ UNCHANGED <<coreVars, created, epochStart, fileVars, recVars, asyncVars, moreVars>>

\* the record's ID read from the counter before the counter is incremented
CreateRecordFetchThenAdd(p, kind) ==
    /\ pc[p] = "create"
    /\ call[p].kind = kind
    /\ Len(created) < MaxCreated
    /\ sequenceNo' = AtomicAddUint64(sequenceNo)
    /\ call' = [call EXCEPT ![p].id = sequenceNo]
    /\ created' = Append(created, sequenceNo)
    /\ pc' = [pc EXCEPT ![p] = "dispatch"]
    /\ UNCHANGED <<levels, backend, given, lastCall, nSetLevel, nCalls, epochStart, fileVars, recVars, asyncVars, moreVars>>

\* the record's ID computed from the counter and the counter left as it was
CreateRecordLoadOnly(p, kind) ==
    /\ pc[p] = "create"
    /\ call[p].kind = kind
    /\ Len(created) < MaxCreated
    /\ call' = [call EXCEPT ![p].id = AtomicAddUint64(sequenceNo)]
    /\ created' = Append(created, AtomicAddUint64(sequenceNo))
    /\ pc' = [pc EXCEPT ![p] = "dispatch"]
    /\ UNCHANGED <<levels, backend, given, sequenceNo, lastCall, nSetLevel, nCalls, epochStart, fileVars, recVars, asyncVars, moreVars>>

\* record := &Record{ID: atomic.AddUint64(&sequenceNo, 1), ...}
CreateRecord(p, kind) ==
    /\ pc[p] = "create"
    /\ call[p].kind = kind
    /\ Len(created) < MaxCreated
    /\ sequenceNo' = AtomicAddUint64(sequenceNo)
    /\ call' = [call EXCEPT ![p].id = AtomicAddUint64(sequenceNo)]
    /\ created' = Append(created, AtomicAddUint64(sequenceNo))
    /\ pc' = [pc EXCEPT ![p] = "dispatch"]
    /\ UNCHANGED <<levels, backend, given, lastCall, nSetLevel, nCalls, epochStart, fileVars, recVars, asyncVars, moreVars>>

\* the backend's Log, and the return
Dispatch(p, kind) ==
    /\ pc[p] = "dispatch"
    /\ call[p].kind = kind
    /\ pc' = [pc EXCEPT ![p] = "idle"]
    /\ call' = [call EXCEPT ![p] = NoLogCall]
    /\ UNCHANGED <<coreVars, created, epochStart, fileVars, recVars, asyncVars, moreVars>>

\* (l *Log).log
LogGate(p, module, lvl) == Gate(p, "Log.log", module, module, lvl)
LogCreate(p) == CreateRecord(p, "Log.log")
LogDispatch(p) == Dispatch(p, "Log.log")

\* the writer DefaultWriter returns
WriterGate(p, logger, module, lvl) == Gate(p, "DefaultWriter", logger, module, lvl)
WriterCreate(p) == CreateRecord(p, "DefaultWriter")
WriterDispatch(p) == Dispatch(p, "DefaultWriter")

NextProcs ==
    \/ \E p \in Procs, lvl \in {ERROR, DEBUG} : LogGate(p, <<"svc">>, lvl)
    \/ \E p \in Procs : LogCreate(p)
    \/ \E p \in Procs : LogDispatch(p)
    \/ \E p \in Procs, lvl \in {ERROR, DEBUG} :
           WriterGate(p, <<"svc">>, <<"svc", Dot, "api">>, lvl)
    \/ \E p \in Procs : WriterCreate(p)
    \/ \E p \in Procs : WriterDispatch(p)
    \/ SetLevel(INFO, <<>>)
    \/ SetLevel(CRITICAL, <<"svc", Dot, "api">>)
    \/ Reset

SpecProcs == Init /\ [][NextProcs]_vars

(***************************************************************************)
(* NewFileBackend, a step at a time: fileMap.Load, the open, fileMap.Store. *)
(***************************************************************************)
\* what a call of NewFileBackend returns: all keeps the (b, err) every call has
\* returned for its path; last is the latest return with what the call was
\* given (hit: it found the path in fileMap; retry: it began after a call for
\* the same path had returned an error; flip changes with every return)
Return(path, options, b, err, hit, retry) ==
    returned' = [all |-> returned.all \cup {[path |-> path, b |-> b, err |-> err]},
                 last |-> [path |-> path, options |-> options, b |-> b,
                           err |-> err, hit |-> hit, retry |-> retry,
                           flip |-> ~returned.last.flip]]

\* whether a call of NewFileBackend for path has returned an error
HasFailed(path) == \E r \in returned.all : r.path = path /\ r.err

\* NewFileBackend that applies the options given to the sink it finds
FileLoadApplyOptions(p, path, options) ==
    /\ fpc[p] = "idle"
    /\ Cardinality(returned.all) < MaxReturns
    /\ IF path \in DOMAIN fileMap
       THEN /\ Return(path, options, fileMap[path], FALSE, TRUE, HasFailed(path))
            /\ instances' = [instances EXCEPT ![fileMap[path]].Async = options.Async]
            /\ UNCHANGED <<fpc, fcall>>
       ELSE /\ fpc' = [fpc EXCEPT ![p] = "open"]
            /\ fcall' = [fcall EXCEPT ![p] = [path |-> path, options |-> options,
                                              handle |-> 0, retry |-> HasFailed(path)]]
            /\ UNCHANGED <<returned, instances>>
    /\ UNCHANGED <<fileMap, opened, coreVars, procVars, recVars, asyncVars, moreVars>>

\* if v, ok := fileMap.Load(path); ok { b = v.(*FileBackend); return }
FileLoad(p, path, options) ==
    /\ fpc[p] = "idle"
    /\ Cardinality(returned.all) < MaxReturns
    /\ IF path \in DOMAIN fileMap
       THEN /\ Return(path, options, fileMap[path], FALSE, TRUE, HasFailed(path))
            /\ UNCHANGED <<fpc, fcall>>
       ELSE /\ fpc' = [fpc EXCEPT ![p] = "open"]
            /\ fcall' = [fcall EXCEPT ![p] = [path |-> path, options |-> options,
                                              handle |-> 0, retry |-> HasFailed(path)]]
            /\ UNCHANGED returned
    /\ UNCHANGED <<fileMap, instances, opened, coreVars, procVars, recVars, asyncVars, moreVars>>

\* NewFileBackend that caches the sink it could not build
FileOpenCacheFailure(p, ok) ==
    /\ fpc[p] = "open"
    /\ IF ok
       THEN /\ Len(opened) < MaxOpens
            /\ opened' = Append(opened, [path |-> fcall[p].path,
                                         truncated |-> fcall[p].options.Truncate,
                                         closed |-> FALSE])
            /\ fcall' = [fcall EXCEPT ![p].handle = Len(opened) + 1]
            /\ fpc' = [fpc EXCEPT ![p] = "store"]
            /\ UNCHANGED <<returned, fileMap>>
       ELSE /\ Return(fcall[p].path, fcall[p].options, NoInstance, TRUE, FALSE,
                      fcall[p].retry)
            /\ fileMap' = [q \in DOMAIN fileMap \cup {fcall[p].path} |->
                              IF q = fcall[p].path THEN NoInstance ELSE fileMap[q]]
            /\ fpc' = [fpc EXCEPT ![p] = "idle"]
            /\ fcall' = [fcall EXCEPT ![p] = NoFileCall]
            /\ UNCHANGED opened
    /\ UNCHANGED <<instances, coreVars, procVars, recVars, asyncVars, moreVars>>

\* os.Create(path) or os.OpenFile(path, O_APPEND|O_WRONLY|O_CREATE, Perm), and
\* if err != nil { return }
FileOpen(p, ok) ==
    /\ fpc[p] = "open"
    /\ IF ok
       THEN /\ Len(opened) < MaxOpens
            /\ opened' = Append(opened, [path |-> fcall[p].path,
                                         truncated |-> fcall[p].options.Truncate,
                                         closed |-> FALSE])
            /\ fcall' = [fcall EXCEPT ![p].handle = Len(opened) + 1]
            /\ fpc' = [fpc EXCEPT ![p] = "store"]
            /\ UNCHANGED returned
       ELSE /\ Return(fcall[p].path, fcall[p].options, NoInstance, TRUE, FALSE,
                      fcall[p].retry)
            /\ fpc' = [fpc EXCEPT ![p] = "idle"]
            /\ fcall' = [fcall EXCEPT ![p] = NoFileCall]
            /\ UNCHANGED opened
    /\ UNCHANGED <<fileMap, instances, coreVars, procVars, recVars, asyncVars, moreVars>>

\* b = &FileBackend{path, NewWriteCloserBackend("file:"+path, f, options.Async)}
\* fileMap.Store(path, b); return
FileStore(p) ==
    /\ fpc[p] = "store"
    /\ instances' = Append(instances, [path |-> fcall[p].path,
                                       Async |-> fcall[p].options.Async,
                                       handle |-> fcall[p].handle])
    /\ fileMap' = [q \in DOMAIN fileMap \cup {fcall[p].path} |->
                      IF q = fcall[p].path THEN Len(instances) + 1 ELSE fileMap[q]]
    /\ Return(fcall[p].path, fcall[p].options, Len(instances) + 1, FALSE, FALSE,
              fcall[p].retry)
    /\ fpc' = [fpc EXCEPT ![p] = "idle"]
    /\ fcall' = [fcall EXCEPT ![p] = NoFileCall]
    /\ UNCHANGED <<opened, coreVars, procVars, recVars, asyncVars, moreVars>>

\* the calls of NewFileBackend made: for "a.log" with the default options and
\* with Async and Truncate set, for "b.log" with the default options
FileCalls ==
    {c \in [path : Paths, options : FileOptions] :
        /\ c.options.Async = c.options.Truncate
        /\ c.path # "a.log" => ~c.options.Async}

NextFile ==
    \/ \E p \in Procs, c \in FileCalls : FileLoad(p, c.path, c.options)
    \/ \E p \in Procs, ok \in BOOLEAN : FileOpen(p, ok)
    \/ \E p \in Procs : FileStore(p)

SpecFile == Init /\ [][NextFile]_vars

(***************************************************************************)
(* The file sinks with Close: a holder of a sink closes it.                *)
(***************************************************************************)
\* (this *WriteCloserBackend).Close() on the sink b:
\* this.WriteCloser.Close(), the file of the sink closed
WriteCloserBackendClose(b) ==
    /\ opened' = [opened EXCEPT ![instances[b].handle].closed = TRUE]
    /\ UNCHANGED <<fileMap, instances, fpc, fcall, returned, coreVars, procVars,
                   recVars, asyncVars, moreVars>>

\* whether the file of the sink b is open, in the state after the step
LiveAfter(b) == ~opened'[instances'[b].handle].closed

NextClose ==
    \/ \E p \in Procs, c \in FileCalls : FileLoad(p, c.path, c.options)
    \/ \E p \in Procs, ok \in BOOLEAN : FileOpen(p, ok)
    \/ \E p \in Procs : FileStore(p)
    \/ \E b \in 1..Len(instances) : WriteCloserBackendClose(b)

SpecClose == Init /\ [][NextClose]_vars

(***************************************************************************)
(* The calls on Records, each run to its end by the one holder of the      *)
(* Record.                                                                 *)
(***************************************************************************)
Bump(counts, r, n) == [counts EXCEPT ![r] = counts[r] + n]

\* record := &Record{ID: atomic.AddUint64(&sequenceNo, 1), Time: timeNow(),
\*     Module: l.Module, Level: lvl, fmt: format, Args: args}, and the formatter
\* the backend gives it. A behaviour follows one such Record and its copies.
NewRecord(module, lvl, format, args, formatter) ==
    /\ recs = <<>>
    /\ sequenceNo' = AtomicAddUint64(sequenceNo)
    /\ arrays' = Append(arrays, args)
    /\ recs' = Append(recs, [ID |-> AtomicAddUint64(sequenceNo), Time |-> "t0",
                             Module |-> module, Level |-> lvl, fmt |-> format,
                             args |-> Len(arrays) + 1, message |-> NilString,
                             formatter |-> formatter, formatted |-> <<>>,
                             copyOf |-> NoRecord])
    /\ runs' = Append(runs, 0)
    /\ fmtRuns' = Append(fmtRuns, 0)
    /\ lastMsg' = Append(lastMsg, NilString)
    /\ lastOp' = [op |-> "new", rec |-> Len(recs) + 1]
    /\ UNCHANGED <<levels, backend, given, lastCall, nSetLevel, nCalls, procVars,
                   fileVars, asyncVars, moreVars>>

\* r := *rec
ShallowCopy(r) ==
    /\ Len(recs) < MaxRecs
    /\ recs' = Append(recs, [recs[r] EXCEPT !.copyOf = r])
    /\ runs' = Append(runs, 0)
    /\ fmtRuns' = Append(fmtRuns, 0)
    /\ lastMsg' = Append(lastMsg, NilString)
    /\ lastOp' = [op |-> "copy", rec |-> Len(recs) + 1]
    /\ UNCHANGED <<arrays, coreVars, procVars, fileVars, asyncVars, moreVars>>

\* what the call that had effect e on Record r leaves in lastOp
OpRecord(op, r, e) ==
    [op |-> op, rec |-> r, out |-> e.out,
     first |-> recs[r].message.nil, prev |-> lastMsg[r],
     argsBefore |-> arrays[recs[r].args], argsAfter |-> e.arrays[recs[r].args],
     messageBefore |-> recs[r].message, messageAfter |-> e.recs[r].message,
     before |-> recs[r], after |-> e.recs[r]]

\* r.Message()
Message(r) ==
    LET e == RecordMessage(recs, arrays, r)
    IN  /\ recs' = e.recs
        /\ arrays' = e.arrays
        /\ runs' = Bump(runs, r, e.ran)
        /\ lastMsg' = [lastMsg EXCEPT ![r] = StringPtr(e.out)]
        /\ lastOp' = OpRecord("Message", r, e)
        /\ UNCHANGED <<fmtRuns, coreVars, procVars, fileVars, asyncVars, moreVars>>

\* r.Data()
Data(r) ==
    LET e == RecordData(recs, arrays, r)
    IN  /\ recs' = e.recs
        /\ arrays' = e.arrays
        /\ runs' = Bump(runs, r, e.ran)
        /\ lastMsg' = [lastMsg EXCEPT ![r] = StringPtr(e.out.Message)]
        /\ lastOp' = OpRecord("Data", r, e)
        /\ UNCHANGED <<fmtRuns, coreVars, procVars, fileVars, asyncVars, moreVars>>

\* r.Formatted(calldepth)
Formatted(r, calldepth) ==
    LET e == RecordFormatted(recs, arrays, r, calldepth)
    IN  /\ fmtRuns[r] + e.formatted <= MaxFormatRuns
        /\ recs' = e.recs
        /\ arrays' = e.arrays
        /\ runs' = Bump(runs, r, e.ran)
        /\ fmtRuns' = Bump(fmtRuns, r, e.formatted)
        /\ lastOp' = OpRecord("Formatted", r, e)
        /\ UNCHANGED <<lastMsg, coreVars, procVars, fileVars, asyncVars, moreVars>>

Calldepths == {2, 3}

NextRecord ==
    \/ \E format \in Formats, args \in ArgLists, formatter \in Formatters :
          NewRecord(<<"svc">>, INFO, format, args, formatter)
    \/ \E r \in 1..Len(recs) : ShallowCopy(r)
    \/ \E r \in 1..Len(recs) : Message(r)
    \/ \E r \in 1..Len(recs) : Data(r)
    \/ \E r \in 1..Len(recs), d \in Calldepths : Formatted(r, d)

SpecRecord == Init /\ [][NextRecord]_vars

(***************************************************************************)
(* The sinks of package backends. A call of a sink's Log either delivers   *)
(* on the caller's goroutine or starts a goroutine and returns; the        *)
(* goroutine copies the Record, delivers the copy and reports a failure    *)
(* through the package's logger log_.                                      *)
(***************************************************************************)
MaxSinkCalls == 2

\* the call depth the loggers pass to their backend
LogCalldepth == 2

\* (b *LogBackend).Log (log.go, not among the source files): it writes
\* rec.Formatted(calldepth+1)
LogBackendLog(R, A, r, calldepth) == RecordFormatted(R, A, r, calldepth + 1)

\* (this HttpBackend).log, up to the request: with the Formatted option the
\* message is rec.Formatted(calldepth), else json.Marshal(rec.Data())
HttpBackend_log(R, A, r, calldepth) ==
    IF httpFormatted
    THEN RecordFormatted(R, A, r, calldepth)
    ELSE LET d == RecordData(R, A, r)
         IN  [recs |-> d.recs, arrays |-> d.arrays, out |-> d.out, ran |-> d.ran,
              formatted |-> 0]

\* this.Backend.Log(level, calldepth, rec) of the WriteCloserBackend,
\* this.log(level, calldepth, rec) of the HttpBackend, up to the I/O
Deliver(s, R, A, r) ==
    IF s = "file" THEN LogBackendLog(R, A, r, LogCalldepth)
    ELSE HttpBackend_log(R, A, r, LogCalldepth)

NoTask == 0

\* the branch of a sink's Log that delivers on the caller's goroutine: what
\* the I/O returns (ok: it succeeds) is what Log returns
SyncLog(s, r, ok) ==
    LET e == Deliver(s, recs, arrays, r)
    IN  /\ Len(calls) < MaxSinkCalls
        /\ fmtRuns[r] + e.formatted <= MaxFormatRuns
        /\ recs' = e.recs
        /\ arrays' = e.arrays
        /\ runs' = Bump(runs, r, e.ran)
        /\ fmtRuns' = Bump(fmtRuns, r, e.formatted)
        /\ calls' = Append(calls, [sink |-> s, rec |-> r, Async |-> sinkAsync[s],
                                   err |-> ~ok, io |-> 1, task |-> NoTask])
        /\ UNCHANGED <<lastMsg, lastOp, sinkAsync, httpFormatted, tasks, coreVars, procVars, fileVars, moreVars>>

\* the branch that starts the goroutine and returns nil
AsyncLog(s, r) ==
    /\ Len(calls) < MaxSinkCalls
    /\ tasks' = Append(tasks, [sink |-> s, rec |-> r, pc |-> "launched",
                               snap |-> NoRecord, atCall |-> recs[r],
                               taken |-> recs[r], failed |-> FALSE, diags |-> 0])
    /\ calls' = Append(calls, [sink |-> s, rec |-> r, Async |-> sinkAsync[s],
                               err |-> FALSE, io |-> 0, task |-> Len(tasks) + 1])
    /\ UNCHANGED <<sinkAsync, httpFormatted, recVars, coreVars, procVars, fileVars, moreVars>>

\* a WriteCloserBackend that delivers on the caller's goroutine whatever its
\* Async is
WriteCloserBackendLogSync(r, ok) == SyncLog("file", r, ok)

\* (this *WriteCloserBackend).Log(level, calldepth, rec)
WriteCloserBackendLog(r, ok) ==
    IF sinkAsync["file"] THEN AsyncLog("file", r) ELSE SyncLog("file", r, ok)

\* (this HttpBackend).Log(level, calldepth, rec)
HttpBackendLog(r, ok) ==
    IF sinkAsync["http"] THEN AsyncLog("http", r) ELSE SyncLog("http", r, ok)

SetTask(t, pcNew) == tasks' = [tasks EXCEPT ![t].pc = pcNew]

\* r := *rec, the first statement of the goroutine
TaskSnapshot(t) ==
    /\ tasks[t].pc = "launched"
    /\ recs' = Append(recs, [recs[tasks[t].rec] EXCEPT !.copyOf = tasks[t].rec])
    /\ runs' = Append(runs, 0)
    /\ fmtRuns' = Append(fmtRuns, 0)
    /\ lastMsg' = Append(lastMsg, NilString)
    /\ tasks' = [tasks EXCEPT ![t].pc = "deliver", ![t].snap = Len(recs) + 1,
                              ![t].taken = recs[tasks[t].rec]]
    /\ UNCHANGED <<arrays, lastOp, sinkAsync, httpFormatted, calls, coreVars, procVars, fileVars, moreVars>>

\* whether the delivery of Record rec by sink s calls Message for the first
\* time on it
Materializes(s, rec) ==
    /\ NeedsMessage(rec)
    /\ (s = "file" \/ httpFormatted) => rec.formatted = <<>>

\* this.Backend.Log(level, calldepth, &r) / this.log(level, calldepth, &r) in
\* the goroutine, up to the I/O: on a first materialization the redacted
\* values stored into the array the copy shares with the original, the message
\* formatted and cached in the copy, the line or the Data built
TaskDeliver(t) ==
    LET e == Deliver(tasks[t].sink, recs, arrays, tasks[t].snap)
    IN  /\ tasks[t].pc = "deliver"
        /\ recs' = e.recs
        /\ arrays' = e.arrays
        /\ runs' = Bump(runs, tasks[t].snap, e.ran)
        /\ fmtRuns' = Bump(fmtRuns, tasks[t].snap, e.formatted)
        /\ SetTask(t, "io")
        /\ UNCHANGED <<lastMsg, lastOp, sinkAsync, httpFormatted, calls, coreVars, procVars, fileVars, moreVars>>

\* the write or the request of the goroutine; ok: it succeeds
TaskIO(t, ok) ==
    /\ tasks[t].pc = "io"
    /\ tasks' = [tasks EXCEPT ![t].pc = IF ok THEN "done" ELSE "report",
                              ![t].failed = ~ok]
    /\ UNCHANGED <<sinkAsync, httpFormatted, calls, recVars, coreVars, procVars, fileVars, moreVars>>

\* log_.Errorf("http async %q failed: %s", ...): a call of Log.log of the
\* logger of package backends at ERROR
TaskReport(t, failing) ==
    /\ tasks[t].pc = "report"
    /\ LogLogEffect(BackendsModule, ERROR, failing)
    /\ tasks' = [tasks EXCEPT ![t].pc = "done",
                              ![t].diags = IF LogIsEnabledFor(BackendsModule, ERROR)
                                           THEN 1 ELSE 0]
    /\ UNCHANGED <<levels, backend, given, nSetLevel, nCalls, sinkAsync, httpFormatted, calls,
                   recVars, procVars, fileVars, moreVars>>

\* the Records a caller holds: those made by a logger
Originals == {r \in 1..Len(recs) : recs[r].copyOf = NoRecord}

\* the sinks built, Async or not, the HTTP sink with or without Formatted, and
\* the level of the default entry as init leaves it or, for an HTTP sink
\* without Formatted, as SetLevel(CRITICAL, "") has set it
InitAsync ==
    /\ InitRest
    /\ sequenceNo = 0
    /\ backend = [multi |-> FALSE, sinks |-> Stderr]
    /\ given = Stderr
    /\ levels \in {LeveledSetLevel(EmptyTable, l, <<>>) : l \in {DEBUG, CRITICAL}}
    /\ sinkAsync \in [Sinks -> BOOLEAN]
    /\ httpFormatted \in BOOLEAN
    /\ httpFormatted => levels = LeveledSetLevel(EmptyTable, DEBUG, <<>>)

NextAsync ==
    \/ NewRecord(<<"svc">>, INFO, NilString, <<"creds", "user">>, "%{message}")
    \/ \E r \in Originals, ok \in BOOLEAN : WriteCloserBackendLog(r, ok)
    \/ \E r \in Originals, ok \in BOOLEAN : HttpBackendLog(r, ok)
    \/ \E r \in Originals : Message(r)
    \/ \E t \in 1..Len(tasks) : TaskSnapshot(t)
    \/ \E t \in 1..Len(tasks) : TaskDeliver(t)
    \/ \E t \in 1..Len(tasks), ok \in BOOLEAN : TaskIO(t, ok)
    \/ \E t \in 1..Len(tasks) : TaskReport(t, {})

SpecAsync == InitAsync /\ [][NextAsync]_vars

(***************************************************************************)
(* The LeveledBackendProxy DefaultBackendProxy returns. A leveled backend  *)
(* is known by the list of backends SetBackend built it over; the calls of *)
(* SetBackend made here are each given a list not given before.           *)
(***************************************************************************)
\* the default backend: what the variable defaultBackend refers to
DefaultBackend == [id |-> given, backend |-> backend, levels |-> levels]

\* a proxy whose accessor returns the backend that was default when the
\* proxy was made
ProxyGetAtCreation(prx) ==
    IF prx.at = given THEN DefaultBackend
    ELSE [id |-> prx.at,
          backend |-> [multi |-> Len(prx.at) # 1, sinks |-> prx.at],
          levels |-> prx.levelsAt]

\* this.Get() of the proxy DefaultBackendProxy returns:
\* func() LeveledBackend { return defaultBackend }
ProxyGet(prx) == DefaultBackend

\* DefaultBackendProxy()
DefaultBackendProxy ==
    /\ ~proxy.made
    /\ proxy' = [made |-> TRUE, at |-> given, levelsAt |-> levels, last |-> NoProxyCall]
    /\ UNCHANGED <<coreVars, procVars, fileVars, recVars, asyncVars, sync, prints, registry, term, own, clock, prefixer>>

\* what a call on the proxy leaves in proxy.last
ProxyCalled(c) ==
    proxy' = [proxy EXCEPT !.last = c @@ [flip |-> ~proxy.last.flip]]

\* (this LeveledBackendProxy).IsEnabledFor(level, module)
ProxyIsEnabledFor(level, module) ==
    LET b == ProxyGet(proxy)
    IN  /\ proxy.made
        /\ ProxyCalled([op |-> "IsEnabledFor", target |-> b.id, level |-> level,
                        module |-> module,
                        result |-> LeveledIsEnabledFor(b.levels, level, module)])
        /\ UNCHANGED <<coreVars, procVars, fileVars, recVars, asyncVars, sync, prints, registry, term, own, clock, prefixer>>

\* (this LeveledBackendProxy).GetLevel(module)
ProxyGetLevel(module) ==
    LET b == ProxyGet(proxy)
    IN  /\ proxy.made
        /\ ProxyCalled([op |-> "GetLevel", target |-> b.id, module |-> module,
                        result |-> LeveledGetLevel(b.levels, module)])
        /\ UNCHANGED <<coreVars, procVars, fileVars, recVars, asyncVars, sync, prints, registry, term, own, clock, prefixer>>

\* (this LeveledBackendProxy).SetLevel(level, module); a table other than the
\* default backend's is not kept
ProxySetLevel(level, module) ==
    LET b == ProxyGet(proxy)
    IN  /\ proxy.made
        /\ ProxyCalled([op |-> "SetLevel", target |-> b.id, level |-> level,
                        module |-> module])
        /\ levels' = IF b.id = given THEN LeveledSetLevel(levels, level, module)
                     ELSE levels
        /\ UNCHANGED <<backend, given, sequenceNo, lastCall, nSetLevel, nCalls,
                       procVars, fileVars, recVars, asyncVars, sync, prints, registry, term, own, clock, prefixer>>

\* (this LeveledBackendProxy).Log(level, calldepth, rec); failing: the sinks
\* whose Log fails during it
ProxyLog(failing) ==
    LET b == ProxyGet(proxy)
    IN  /\ proxy.made
        /\ ProxyCalled([op |-> "Log", target |-> b.id, failing |-> failing,
                        result |-> BackendLog(b.backend, failing)])
        /\ UNCHANGED <<coreVars, procVars, fileVars, recVars, asyncVars, sync, prints, registry, term, own, clock, prefixer>>

NextProxy ==
    \/ DefaultBackendProxy
    \/ \E l \in {ERROR, INFO}, m \in {<<>>, <<"svc">>} : ProxySetLevel(l, m)
    \/ \E l \in {WARNING, DEBUG}, m \in {<<"svc", Dot, "api">>} : ProxyIsEnabledFor(l, m)
    \/ \E m \in {<<>>, <<"svc", Dot, "api">>} : ProxyGetLevel(m)
    \/ \E failing \in SUBSET (1..Len(backend.sinks)) : ProxyLog(failing)
    \/ \E n \in 1..MaxSinks : Len(given) < n /\ SetBackend(SinkList(n))
    \/ SetLevel(WARNING, <<>>)

SpecProxy == Init /\ [][NextProxy]_vars

(***************************************************************************)
(* One WriteCloserBackend with Async off and the goroutines that call its  *)
(* Log, a step at a time: the call, the write of the underlying writer,    *)
(* the return. A caller's calls are numbered 1, 2, ... in the order it     *)
(* makes them.                                                             *)
(***************************************************************************)
MaxSyncCalls == 3

SyncCallsMade == Len(sync.written) + Cardinality({p \in Procs : sync.pc[p] = "write"})

\* caller p invokes Log: if this.Async is false,
\* return this.Backend.Log(level, calldepth, rec) begins
SinkInvoke(p) ==
    /\ sync.pc[p] = "idle"
    /\ SyncCallsMade < MaxSyncCalls
    /\ sync' = [sync EXCEPT !.pc[p] = "write", !.n[p] = @ + 1]
    /\ UNCHANGED <<coreVars, procVars, fileVars, recVars, asyncVars, proxy, prints, registry, term, own, clock, prefixer>>

\* a writer that puts what it is given before what it holds
SinkWriteFirst(p, ok) ==
    /\ sync.pc[p] = "write"
    /\ sync' = [sync EXCEPT !.pc[p] = "return", !.ok[p] = ok,
                            !.written = <<[proc |-> p, k |-> sync.n[p], ok |-> ok]>> \o @]
    /\ UNCHANGED <<coreVars, procVars, fileVars, recVars, asyncVars, proxy, prints, registry, term, own, clock, prefixer>>

\* the write of this.Backend.Log on the underlying writer, one write per
\* record; ok: it succeeds
SinkWrite(p, ok) ==
    /\ sync.pc[p] = "write"
    /\ sync' = [sync EXCEPT !.pc[p] = "return", !.ok[p] = ok,
                            !.written = Append(@, [proc |-> p, k |-> sync.n[p],
                                                   ok |-> ok])]
    /\ UNCHANGED <<coreVars, procVars, fileVars, recVars, asyncVars, proxy, prints, registry, term, own, clock, prefixer>>

\* return this.Backend.Log(level, calldepth, rec): the write's error returned
SinkReturn(p) ==
    /\ sync.pc[p] = "return"
    /\ sync' = [sync EXCEPT !.pc[p] = "idle", !.ok[p] = TRUE,
                            !.rets = @ \cup {[proc |-> p, k |-> sync.n[p],
                                              err |-> ~sync.ok[p]]}]
    /\ UNCHANGED <<coreVars, procVars, fileVars, recVars, asyncVars, proxy, prints, registry, term, own, clock, prefixer>>

NextSync ==
    \/ \E p \in Procs : SinkInvoke(p)
    \/ \E p \in Procs, ok \in BOOLEAN : SinkWrite(p, ok)
    \/ \E p \in Procs : SinkReturn(p)

SpecSync == Init /\ [][NextSync]_vars

(***************************************************************************)
(* Print of the file sink and of the HTTP sink. The caller passes one      *)
(* slice of arguments and may store into it after Print has returned.      *)
(***************************************************************************)
\* fmt.Sprint(args...): the operands, a space between two of them when
\* neither is a string
RECURSIVE Sprint(_)
Sprint(a) ==
    IF Len(a) <= 1 THEN a
    ELSE <<a[1]>> \o (IF ~IsString(a[1]) /\ ~IsString(a[2]) THEN <<" ">> ELSE <<>>)
                 \o Sprint(Tail(a))

\* what a Print call leaves in prints.calls: io: the I/O operations done
\* within the call; task: whether it started a goroutine
PrintCalled(s, err, io, task) ==
    [sink |-> s, Async |-> sinkAsync[s], err |-> err, io |-> io, task |-> task]

\* (this *FileBackend).Print(args...):
\* _, err = this.Write([]byte(fmt.Sprint(args...) + "\n")); ok: the write
\* succeeds
FileBackendPrint(ok) ==
    /\ prints' = [prints EXCEPT !.calls = @ \cup {PrintCalled("file", ~ok, 1, FALSE)}]
    /\ UNCHANGED <<coreVars, procVars, fileVars, recVars, asyncVars, proxy, sync, registry, term, own, clock, prefixer>>

\* (this HttpBackend).Print(args...): with Async the goroutine started over
\* the slice args and nil returned, else this.print(args...) and its error
HttpBackendPrint(ok) ==
    /\ IF sinkAsync["http"]
       THEN /\ Len(prints.tasks) < MaxSinkCalls
            /\ prints' = [prints EXCEPT
                   !.calls = @ \cup {PrintCalled("http", FALSE, 0, TRUE)},
                   !.tasks = Append(@, [pc |-> "launched", atCall |-> prints.args,
                                        sent |-> <<>>, failed |-> FALSE])]
       ELSE prints' = [prints EXCEPT
                   !.calls = @ \cup {PrintCalled("http", ~ok, 1, FALSE)}]
    /\ UNCHANGED <<coreVars, procVars, fileVars, recVars, asyncVars, proxy, sync, registry, term, own, clock, prefixer>>

\* the goroutine of the asynchronous Print, in this.print(args...):
\* msg := []byte(fmt.Sprint(args...)), over the slice as it is now
PrintTaskSprint(t) ==
    /\ prints.tasks[t].pc = "launched"
    /\ prints' = [prints EXCEPT !.tasks[t].pc = "request",
                                !.tasks[t].sent = Sprint(prints.args)]
    /\ UNCHANGED <<coreVars, procVars, fileVars, recVars, asyncVars, proxy, sync,
                   registry, term, own, clock, prefixer>>

\* the goroutine's this.Client.Get or this.Client.Post returns; ok: without
\* an error
PrintTaskRequest(t, ok) ==
    /\ prints.tasks[t].pc = "request"
    /\ prints' = [prints EXCEPT !.tasks[t].pc = IF ok THEN "done" ELSE "report",
                                !.tasks[t].failed = ~ok]
    /\ UNCHANGED <<coreVars, procVars, fileVars, recVars, asyncVars, proxy, sync,
                   registry, term, own, clock, prefixer>>

\* the goroutine's log_.Errorf("http async %q failed: %s", ...)
PrintTaskReport(t) ==
    /\ prints.tasks[t].pc = "report"
    /\ prints' = [prints EXCEPT !.tasks[t].pc = "done"]
    /\ LogLogEffect(BackendsModule, ERROR, {})
    /\ UNCHANGED <<levels, backend, given, nSetLevel, nCalls, procVars, fileVars,
                   recVars, asyncVars, proxy, sync, registry, term, own, clock, prefixer>>

\* the caller stores v into the slice it passed to Print
StoreArg(v) ==
    /\ prints' = [prints EXCEPT !.args = <<v>>]
    /\ UNCHANGED <<coreVars, procVars, fileVars, recVars, asyncVars, proxy, sync, registry, term, own, clock, prefixer>>

NextPrint ==
    \/ \E ok \in BOOLEAN : FileBackendPrint(ok)
    \/ \E ok \in BOOLEAN : HttpBackendPrint(ok)
    \/ \E t \in 1..Len(prints.tasks) : PrintTaskSprint(t)
    \/ \E t \in 1..Len(prints.tasks), ok \in BOOLEAN : PrintTaskRequest(t, ok)
    \/ \E t \in 1..Len(prints.tasks) : PrintTaskReport(t)
    \/ LogLog(<<"svc">>, INFO, {})
    \/ \E v \in {"a", "b"} : StoreArg(v)

SpecPrint == InitAsync /\ [][NextPrint]_vars

(***************************************************************************)
(* GetOrCreateLogger of concurrent callers, a step at a time: Get under    *)
(* the read lock, then, when Get found nothing, the creation under the     *)
(* write lock.                                                             *)
(***************************************************************************)
MaxLoggers == 3

\* (this *SyncedLoggers).Get(module)
SyncedLoggersGet(module) ==
    IF module \in DOMAIN registry.loggers THEN registry.loggers[module] ELSE NoLogger

\* GetLogger(module)
GetLogger(module) ==
    /\ registry' = [registry EXCEPT
           !.rets = @ \cup {[module |-> module, log |-> SyncedLoggersGet(module)]}]
    /\ UNCHANGED <<coreVars, procVars, fileVars, recVars, asyncVars, proxy, sync, prints, term, own, clock, prefixer>>

\* GetOrCreate: if log = this.Get(module); log == nil { ... }; return
GetOrCreateGet(p, module) ==
    /\ registry.pc[p] = "idle"
    /\ Len(registry.made) < MaxLoggers
    /\ IF SyncedLoggersGet(module) # NoLogger
       THEN registry' = [registry EXCEPT
                !.rets = @ \cup {[module |-> module, log |-> SyncedLoggersGet(module)]}]
       ELSE registry' = [registry EXCEPT !.pc[p] = "create", !.module[p] = module]
    /\ UNCHANGED <<coreVars, procVars, fileVars, recVars, asyncVars, proxy, sync, prints, term, own, clock, prefixer>>

\* GetOrCreate: this.mu.Lock(); log = NewLogger(module);
\* this.loggers[module] = log; return
GetOrCreateCreate(p) ==
    /\ registry.pc[p] = "create"
    /\ Len(registry.made) < MaxLoggers
    /\ LET m == registry.module[p]
           new == Len(registry.made) + 1
       IN  registry' = [registry EXCEPT
               !.made = Append(@, m),
               !.loggers = [q \in DOMAIN @ \cup {m} |-> IF q = m THEN new ELSE @[q]],
               !.rets = @ \cup {[module |-> m, log |-> new]},
               !.pc[p] = "idle",
               !.module[p] = <<>>]
    /\ UNCHANGED <<coreVars, procVars, fileVars, recVars, asyncVars, proxy, sync, prints, term, own, clock, prefixer>>

NextRegistry ==
    \/ \E p \in Procs, m \in {<<"svc">>, <<"svc", Dot, "api">>} : GetOrCreateGet(p, m)
    \/ \E p \in Procs : GetOrCreateCreate(p)
    \/ \E m \in {<<"svc">>, <<"svc", Dot, "api">>} : GetLogger(m)

SpecRegistry == Init /\ [][NextRegistry]_vars

(***************************************************************************)
(* Fatal, Panic and Critical of Log, Basic and LogPrefix, called by one    *)
(* goroutine: the log call, then os.Exit(1), the panic, or the return to   *)
(* the caller. The default backend wraps one file sink, asynchronous or    *)
(* not; the goroutine of an asynchronous one formats the record when it    *)
(* is scheduled.                                                           *)
(***************************************************************************)
\* a threshold below CRITICAL: Level is an int and SetLevel stores any Level
Off == CRITICAL - 1

FatalMethods == {"Fatal", "Fatalf"}
PanicMethods == {"Panic", "Panicf"}
Methods == FatalMethods \cup PanicMethods \cup {"Critical"}

\* a Log, a Basic over DefaultWriter(log, module), a LogPrefix over a Log
Receivers == {"Log", "Basic", "LogPrefix"}

\* the module of the logger
ExitModule == <<"svc">>

\* WithPrefix(parent, "db").prefix
Prefix == "db ->"

\* the argument lists the caller passes here
ExitArgLists == { <<"user">>, <<"pw">>, <<"user", "pw">>, <<"42", "42">> }

\* the format the method hands to log or write: nil, or &format
MethodFormat(method) ==
    IF method \in {"Fatalf", "Panicf"} THEN StringPtr(<<"login ", Verb>>) ELSE NilString

\* what reaches the Log's method: LogPrefix calls it with
\* append([]interface{}{this.prefix}, args...) or with this.prefix+" "+format
PassedArgs(recv, method, args) ==
    IF recv = "LogPrefix" /\ MethodFormat(method).nil THEN <<Prefix>> \o args ELSE args

PassedFormat(recv, method) ==
    IF recv = "LogPrefix" /\ ~MethodFormat(method).nil
    THEN StringPtr(<<Prefix, " ">> \o MethodFormat(method).text)
    ELSE MethodFormat(method)

\* the first statement of the method: l.log(CRITICAL, format, args...) of Log,
\* l.write(CRITICAL, format, args...) of Basic, run to its end. The Record's
\* Args is the slice the method was given; a sink that delivers on the
\* caller's goroutine has called Message() on the Record by then.
CallLog(recv, method, args) ==
    /\ term.status = "running"
    /\ term.pc = "idle"
    /\ nCalls < MaxCalls
    /\ nCalls' = nCalls + 1
    /\ LogLogEffect(ExitModule, CRITICAL, {})
    /\ LET f == PassedFormat(recv, method)
           a == PassedArgs(recv, method, args)
           handed == lastCall'.enabled /\ lastCall'.delivered # <<>>
       IN  term' = [term EXCEPT
               !.pc = "logged", !.recv = recv, !.method = method, !.fmt = f,
               !.args = IF handed /\ ~sinkAsync["file"] THEN RedactArgs(a) ELSE a,
               !.enabled = lastCall'.enabled,
               !.handed = handed,
               !.message = IF handed THEN MessageText([fmt |-> f], RedactArgs(a))
                           ELSE <<>>]
    /\ UNCHANGED <<levels, backend, given, nSetLevel, procVars, fileVars, recVars,
                   asyncVars, proxy, sync, prints, registry, own, clock, prefixer>>

\* the method returns to its caller, whose next statement runs
ReturnToCaller ==
    term' = [NoTermination EXCEPT !.after = term.method]

\* Fatal without its second statement
OsExitSkipped ==
    /\ term.status = "running"
    /\ term.pc = "logged"
    /\ term.method \in FatalMethods
    /\ ReturnToCaller
    /\ UNCHANGED <<coreVars, procVars, fileVars, recVars, asyncVars, proxy, sync,
                   prints, registry, own, clock, prefixer>>

\* os.Exit(1), the second statement of Fatal and of Fatalf
OsExit ==
    /\ term.status = "running"
    /\ term.pc = "logged"
    /\ term.method \in FatalMethods
    /\ term' = [term EXCEPT !.status = "exited", !.code = 1]
    /\ UNCHANGED <<coreVars, procVars, fileVars, recVars, asyncVars, proxy, sync,
                   prints, registry, own, clock, prefixer>>

\* panic(fmt.Sprint(args...)) of Panic, panic(fmt.Sprintf(format, args...))
\* of Panicf, over the slice as it is now
PanicRaise ==
    /\ term.status = "running"
    /\ term.pc = "logged"
    /\ term.method \in PanicMethods
    /\ term' = [term EXCEPT
           !.status = "panicking",
           !.value = IF term.fmt.nil THEN Sprint(term.args)
                     ELSE Fprintf(term.fmt.text, term.args)]
    /\ UNCHANGED <<coreVars, procVars, fileVars, recVars, asyncVars, proxy, sync,
                   prints, registry, own, clock, prefixer>>

\* Critical has only the one statement
CriticalReturn ==
    /\ term.status = "running"
    /\ term.pc = "logged"
    /\ term.method = "Critical"
    /\ ReturnToCaller
    /\ UNCHANGED <<coreVars, procVars, fileVars, recVars, asyncVars, proxy, sync,
                   prints, registry, own, clock, prefixer>>

\* the goroutine of the asynchronous sink: this.Backend.Log on its copy of
\* the Record calls Message(), which stores the redacted values into the
\* array the copy shares with the caller's slice
TaskMessage ==
    /\ term.status = "running"
    /\ term.handed
    /\ sinkAsync["file"]
    /\ term.args # RedactArgs(term.args)
    /\ term' = [term EXCEPT !.args = RedactArgs(term.args)]
    /\ UNCHANGED <<coreVars, procVars, fileVars, recVars, asyncVars, proxy, sync,
                   prints, registry, own, clock, prefixer>>

\* the file sink built Async or not; the default entry as init leaves it, or
\* as SetLevel(Level(-1), "") has set it
InitExit ==
    /\ InitRest
    /\ sequenceNo = 0
    /\ backend = [multi |-> FALSE, sinks |-> Stderr]
    /\ given = Stderr
    /\ levels \in {LeveledSetLevel(EmptyTable, l, <<>>) : l \in {DEBUG, Off}}
    /\ sinkAsync \in {[s \in Sinks |-> b] : b \in BOOLEAN}
    /\ httpFormatted = FALSE

NextExit ==
    \/ \E recv \in Receivers, method \in Methods, args \in ExitArgLists :
           CallLog(recv, method, args)
    \/ OsExit
    \/ PanicRaise
    \/ CriticalReturn
    \/ TaskMessage

\* a goroutine that is not blocked goes on to its next statement
SpecExit == InitExit /\ [][NextExit]_vars /\ WF_vars(OsExit)

(***************************************************************************)
(* A logger with a backend of its own: Log.SetBackend, SetLogLevel, and    *)
(* the log call of the Log (Log.log) and of a Basic over                   *)
(* DefaultWriter(log, module). The backend of its own is a leveled backend *)
(* over one sink, with a table of its own.                                 *)
(***************************************************************************)
\* the module of the logger
OwnModule == <<"svc">>

\* the modules SetLevel and SetLogLevel are called with here
OwnModules == {<<>>, OwnModule}

\* (l *Log).SetBackend(AddModuleLevel(sink))
LogSetBackend ==
    /\ ~own.have
    /\ own' = [own EXCEPT !.have = TRUE, !.levels = EmptyTable]
    /\ UNCHANGED <<coreVars, procVars, fileVars, recVars, asyncVars, proxy, sync,
                   prints, registry, term, clock, prefixer>>

\* SetLogLevel(log, level, module): the table of log.Backend() when there is
\* one, else that of the default backend
SetLogLevel(level, module) ==
    /\ nSetLevel < MaxSetLevel
    /\ nSetLevel' = nSetLevel + 1
    /\ IF own.have
       THEN /\ own' = [own EXCEPT !.levels = LeveledSetLevel(own.levels, level, module),
                                  !.set = TRUE]
            /\ UNCHANGED levels
       ELSE /\ levels' = LeveledSetLevel(levels, level, module)
            /\ UNCHANGED own
    /\ UNCHANGED <<backend, given, sequenceNo, lastCall, nCalls, procVars, fileVars,
                   recVars, asyncVars, proxy, sync, prints, registry, term, clock, prefixer>>

\* what the call leaves in own.last
OwnCalled(op, kind, level, answer, delivered, to, passed, args) ==
    own' = [own EXCEPT !.last =
               [op |-> op, kind |-> kind, level |-> level, have |-> own.have,
                set |-> own.set,
                underOwn |-> LeveledIsEnabledFor(own.levels, level, OwnModule),
                answer |-> answer, delivered |-> delivered, to |-> to,
                passed |-> passed, args |-> args]]

\* log.IsEnabledFor(level)
OwnIsEnabledFor(level) ==
    /\ OwnCalled("IsEnabledFor", "Log", level, LogIsEnabledFor(OwnModule, level),
                 FALSE, "none", <<>>, <<>>)
    /\ UNCHANGED <<coreVars, procVars, fileVars, recVars, asyncVars, proxy, sync,
                   prints, registry, term, clock, prefixer>>

\* what the caller's slice can hold when a Log of the logger's backend
\* returns: a sink that delivers on the caller's goroutine has called
\* Message() on the Record, whose Args is that slice; the goroutine of an
\* asynchronous sink calls it on a copy of the Record that shares the array,
\* unsynchronised with the caller, before the return or after it
ArgsAfterLog(args) ==
    IF sinkAsync["file"] THEN {args, RedactArgs(args)} ELSE {RedactArgs(args)}

\* the log call with the Record made before the gate is asked
OwnLogCreateFirst(kind, lvl, args) ==
    /\ nCalls < MaxCalls
    /\ nCalls' = nCalls + 1
    /\ sequenceNo' = AtomicAddUint64(sequenceNo)
    /\ IF ~LogIsEnabledFor(OwnModule, lvl)
       THEN OwnCalled("log", kind, lvl, FALSE, FALSE, "none", args, args)
       ELSE \E after \in ArgsAfterLog(args) :
                OwnCalled("log", kind, lvl, TRUE, TRUE,
                          IF own.have THEN "own" ELSE "default", args, after)
    /\ UNCHANGED <<levels, backend, given, lastCall, nSetLevel, procVars, fileVars,
                   recVars, asyncVars, proxy, sync, prints, registry, term, clock, prefixer>>

\* (l *Log).log (kind "Log.log") and the writer of DefaultWriter (kind
\* "DefaultWriter") at level lvl with the arguments args, run to the end: the
\* gate l.IsEnabledFor, the Record, then Log of the logger's backend if it
\* has one, else of the default backend
OwnLog(kind, lvl, args) ==
    /\ nCalls < MaxCalls
    /\ nCalls' = nCalls + 1
    /\ IF ~LogIsEnabledFor(OwnModule, lvl)
       THEN /\ OwnCalled("log", kind, lvl, FALSE, FALSE, "none", args, args)
            /\ UNCHANGED sequenceNo
       ELSE /\ sequenceNo' = AtomicAddUint64(sequenceNo)
            /\ \E after \in ArgsAfterLog(args) :
                   OwnCalled("log", kind, lvl, TRUE, TRUE,
                             IF own.have THEN "own" ELSE "default", args, after)
    /\ UNCHANGED <<levels, backend, given, lastCall, nSetLevel, procVars, fileVars,
                   recVars, asyncVars, proxy, sync, prints, registry, term, clock, prefixer>>

\* the goroutine an asynchronous sink started for the last call, after the
\* call returned: this.Backend.Log on its copy of the Record calls Message(),
\* which stores the redacted values into the array the caller's slice shares
OwnTaskMessage ==
    /\ own.last.op = "log"
    /\ own.last.delivered
    /\ sinkAsync["file"]
    /\ own.last.args # RedactArgs(own.last.passed)
    /\ own' = [own EXCEPT !.last.args = RedactArgs(own.last.passed)]
    /\ UNCHANGED <<coreVars, procVars, fileVars, recVars, asyncVars, proxy, sync,
                   prints, registry, term, clock, prefixer>>

NextOwn ==
    \/ LogSetBackend
    \/ \E l \in Levels, m \in OwnModules : SetLogLevel(l, m)
    \/ \E l \in Levels, m \in OwnModules : SetLevel(l, m)
    \/ \E l \in Levels : OwnIsEnabledFor(l)
    \/ \E k \in {"Log.log", "DefaultWriter"}, l \in Levels : OwnLog(k, l, <<"user", "pw">>)

SpecOwn == Init /\ [][NextOwn]_vars

(***************************************************************************)
(* The gate of the log call: one logger, with or without a backend of its  *)
(* own, under a default threshold set before; the sink synchronous or not. *)
(***************************************************************************)
\* the default entry as init leaves it or as SetLevel(l, "") has set it; the
\* file sink built Async or not
InitGate ==
    /\ InitRest
    /\ sequenceNo = 0
    /\ backend = [multi |-> FALSE, sinks |-> Stderr]
    /\ given = Stderr
    /\ levels \in {LeveledSetLevel(EmptyTable, l, <<>>) : l \in {CRITICAL, WARNING, DEBUG}}
    /\ sinkAsync \in {[s \in Sinks |-> b] : b \in BOOLEAN}
    /\ httpFormatted = FALSE

NextGate ==
    \/ LogSetBackend
    \/ OwnTaskMessage
    \/ \E k \in {"Log.log", "DefaultWriter"}, l \in Levels, a \in ExitArgLists :
           OwnLog(k, l, a)

SpecGate == InitGate /\ [][NextGate]_vars

(***************************************************************************)
(* Reset after thresholds were set, records created, loggers registered,   *)
(* file sinks cached and the clock replaced.                               *)
(***************************************************************************)
\* timeNow = f, as the package's tests do
SetTimeNow ==
    /\ clock' = [timeNow |-> "fake", replaced |-> TRUE]
    /\ UNCHANGED <<coreVars, procVars, fileVars, recVars, asyncVars, restVars>>

NextReset ==
    \/ Reset
    \/ SetLevel(CRITICAL, <<>>)
    \/ SetLevel(ERROR, <<"svc">>)
    \/ SetBackend(SinkList(2))
    \/ \E l \in {CRITICAL, INFO} : LogLog(<<"svc">>, l, {})
    \/ SetTimeNow
    \/ GetOrCreateGet(1, <<"svc">>)
    \/ GetOrCreateCreate(1)
    \/ FileLoad(1, "a.log", [Async |-> FALSE, Truncate |-> FALSE])
    \/ FileOpen(1, TRUE)
    \/ FileStore(1)

SpecReset == Init /\ [][NextReset]_vars

(***************************************************************************)
(* The prefix logger WithPrefix(parent, "db") returns, over a Log: Prefix, *)
(* SetPrefix and its level methods.                                        *)
(***************************************************************************)
\* the prefixes SetPrefix is called with here
NewPrefixes == {"api ->", "job ->"}

\* (this LogPrefix) SetPrefix(v): this.prefix = v, this being the copy of the
\* LogPrefix the method received; what the copy holds when the method returns
SetPrefixReceiver(v) == [prefix |-> v]

\* p.SetPrefix(v): the method assigns to its receiver, a copy, and the
\* LogPrefix p points to keeps its prefix
SetPrefix(v) ==
    /\ SetPrefixReceiver(v).prefix = v
    /\ prefixer' = [prefixer EXCEPT !.set = v,
                       !.last = [op |-> "SetPrefix", out |-> "", text |-> <<>>]]
    /\ UNCHANGED <<coreVars, procVars, fileVars, recVars, asyncVars, proxy, sync,
                   prints, registry, term, own, clock>>

\* p.Prefix(): return this.prefix
PrefixerPrefix ==
    /\ prefixer' = [prefixer EXCEPT
           !.last = [op |-> "Prefix", out |-> prefixer.prefix, text |-> <<>>]]
    /\ UNCHANGED <<coreVars, procVars, fileVars, recVars, asyncVars, proxy, sync,
                   prints, registry, term, own, clock>>

\* a level method of p at level lvl: without a format,
\* this.Logger.M(append([]interface{}{this.prefix}, args...)...), with one,
\* this.Logger.Mf(this.prefix+" "+format, args...); text: the record's message
PrefixerLog(lvl, format, args) ==
    /\ nCalls < MaxCalls
    /\ nCalls' = nCalls + 1
    /\ LogLogEffect(<<"svc">>, lvl, {})
    /\ LET f == IF format.nil THEN NilString
                ELSE StringPtr(<<prefixer.prefix, " ">> \o format.text)
           a == IF format.nil THEN <<prefixer.prefix>> \o args ELSE args
       IN  prefixer' = [prefixer EXCEPT
               !.last = [op |-> "log", out |-> "",
                         text |-> IF lastCall'.enabled
                                  THEN MessageText([fmt |-> f], RedactArgs(a))
                                  ELSE <<>>]]
    /\ UNCHANGED <<levels, backend, given, nSetLevel, procVars, fileVars, recVars,
                   asyncVars, proxy, sync, prints, registry, term, own, clock>>

NextPrefix ==
    \/ \E v \in NewPrefixes : SetPrefix(v)
    \/ PrefixerPrefix
    \/ \E lvl \in Levels, format \in Formats, args \in ExitArgLists :
           PrefixerLog(lvl, format, args)
    \/ SetLevel(WARNING, <<>>)

SpecPrefix == Init /\ [][NextPrefix]_vars

NextLevel ==
    \/ \E l \in Levels, m \in ModuleNames : SetLevel(l, m)
    \/ SetBackend(SinkList(1))
    \/ Reset

SpecLevel == Init /\ [][NextLevel]_vars

NextMulti ==
    \/ \E bs \in BackendLists : SetBackend(bs)
    \/ \E l \in {CRITICAL, DEBUG} : SetLevel(l, <<>>)
    \/ \E lvl \in {ERROR, DEBUG}, failing \in SUBSET (1..Len(backend.sinks)) :
          LogLog(<<"svc", Dot, "api">>, lvl, failing)

SpecMulti == Init /\ [][NextMulti]_vars

(***************************************************************************)
(* C1.                                                                     *)
(***************************************************************************)
\* the dot-segment prefixes of m: m itself, every part of m that ends right
\* before one of its dots, and the default module ""
SegmentPrefixes(m) ==
    {m, <<>>} \cup {SubSeq(m, 1, i - 1) : i \in {j \in 1..Len(m) : m[j] = Dot}}

\* the prefixes of m that have an entry in T
Governing(T, m) == SegmentPrefixes(m) \cap DOMAIN T

LongestOf(S) == CHOOSE p \in S : \A q \in S : Len(q) <= Len(p)

\* level is at least as severe as threshold
AtLeastAsSevere(level, threshold) == level <= threshold

\* C1: IsEnabledFor(l, m) is true iff l is at least as severe as the threshold
\* of the longest dot-segment prefix of m that has an entry in the table (m
\* itself, m with its last segments trimmed, finally ""), and is true for
\* every level when no prefix has an entry.
C1_LongestPrefixGate ==
    \A m \in ModuleNames, l \in Levels :
        LogIsEnabledFor(m, l) =
            IF Governing(levels, m) = {} THEN TRUE
            ELSE AtLeastAsSevere(l, levels[LongestOf(Governing(levels, m))])

\* "svc.api" at WARNING over a default of DEBUG: NOTICE for "svc.api.http" is
\* suppressed, ERROR for it and INFO for "svc.worker" are delivered
C1_Witness ==
    /\ DOMAIN levels = {<<>>, <<"svc", Dot, "api">>}
    /\ levels[<<"svc", Dot, "api">>] = WARNING
    /\ levels[<<>>] = DEBUG
    /\ ~LogIsEnabledFor(<<"svc", Dot, "api", Dot, "http">>, NOTICE)
    /\ LogIsEnabledFor(<<"svc", Dot, "api", Dot, "http">>, ERROR)
    /\ LogIsEnabledFor(<<"svc", Dot, "worker">>, INFO)

\* no entry anywhere: every level of every module is enabled
C1_FailOpenReached ==
    /\ levels = EmptyTable
    /\ \A m \in ModuleNames, l \in Levels : LogIsEnabledFor(m, l)

(***************************************************************************)
(* C4.                                                                     *)
(***************************************************************************)
\* C4: Log of the backend SetBackend builds from several backends s1..sn
\* invokes the Log of every one of them exactly once, in the order given,
\* whichever of them fail, and returns a non-nil error iff one of them failed.
C4_FanOutNoShortCircuit ==
    (lastCall.kind = "log" /\ lastCall.enabled /\ Len(lastCall.backends) >= 2) =>
        /\ lastCall.delivered = lastCall.backends
        /\ (~lastCall.err.nil) <=> (lastCall.failing # {})

\* three sinks, the second fails: the first and the third still get the record
\* and the call returns an error
C4_Witness ==
    /\ lastCall.kind = "log"
    /\ lastCall.enabled
    /\ lastCall.backends = SinkList(3)
    /\ lastCall.failing = {2}
    /\ lastCall.delivered = SinkList(3)
    /\ ~lastCall.err.nil

(***************************************************************************)
(* C3.                                                                     *)
(***************************************************************************)
\* the IDs of the records created since the last Reset, in creation order
SinceReset == SubSeq(created, epochStart + 1, Len(created))

\* C3: the N records that concurrently running log calls create from counter
\* value k on get exactly the IDs k+1..k+N, none twice and none left out.
C3_IdsArePermutation ==
    \A k \in 0..Len(SinceReset) :
        LET ids == {SinceReset[i] : i \in (k + 1)..Len(SinceReset)}
        IN  /\ ids = (k + 1)..Len(SinceReset)
            /\ Cardinality(ids) = Len(SinceReset) - k

\* two calls, one through Log.log and one through DefaultWriter, both past the
\* creation of their record and neither returned: their IDs differ
C3_Witness ==
    \E p, q \in Procs :
        /\ pc[p] = "dispatch" /\ call[p].kind = "Log.log"
        /\ pc[q] = "dispatch" /\ call[q].kind = "DefaultWriter"
        /\ call[p].id # call[q].id
        /\ Len(SinceReset) >= 2

(***************************************************************************)
(* C2.                                                                     *)
(***************************************************************************)
\* C2: whatever the interleaving of the NewFileBackend calls for a path, the
\* file is opened once, one sink is built for it, and every call that returns
\* a sink returns that one.
C2_OneSinkPerPath ==
    \A path \in Paths :
        /\ Cardinality({h \in 1..Len(opened) : opened[h].path = path}) <= 1
        /\ Cardinality({b \in 1..Len(instances) : instances[b].path = path}) <= 1
        /\ \A r, q \in returned.all :
              (r.path = path /\ q.path = path /\ ~r.err /\ ~q.err) => r.b = q.b

(***************************************************************************)
(* C9.                                                                     *)
(***************************************************************************)
\* C9: Message() is memoized per Record: a call after the first returns what
\* the call before it returned and changes neither Args nor the cached
\* message; redaction and formatting run once per Record at most; Data()
\* materializes the same message and returns it with ID, Time, Module and
\* Level as they are.
C9_MessageMemoized ==
    /\ \A r \in 1..Len(recs) : runs[r] <= 1
    /\ lastOp.op \in {"Message", "Data"} =>
          /\ ~lastOp.first =>
                /\ lastOp.argsAfter = lastOp.argsBefore
                /\ lastOp.messageAfter = lastOp.messageBefore
          /\ lastOp.after = [lastOp.before EXCEPT !.message = lastOp.messageAfter]
          /\ ~lastOp.messageAfter.nil
    /\ lastOp.op = "Message" =>
          (~lastOp.prev.nil => lastOp.out = lastOp.prev.text)
    /\ lastOp.op = "Data" =>
          /\ ~lastOp.prev.nil => lastOp.out.Message = lastOp.prev.text
          /\ lastOp.out.Message = lastOp.messageAfter.text
          /\ lastOp.out.ID = lastOp.before.ID
          /\ lastOp.out.Time = lastOp.before.Time
          /\ lastOp.out.Module = lastOp.before.Module
          /\ lastOp.out.Level = lastOp.before.Level

\* a second Message() on a Record whose Args hold a Redactor that redacts to
\* a Redactor: the same string again, Args untouched
C9_Witness ==
    /\ lastOp.op = "Message"
    /\ ~lastOp.prev.nil
    /\ ~lastOp.first
    /\ \E i \in 1..Len(lastOp.argsBefore) : lastOp.argsBefore[i] = "creds(masked)"
    /\ lastOp.out = lastOp.prev.text
    /\ runs[lastOp.rec] = 1

(***************************************************************************)
(* C10.                                                                    *)
(***************************************************************************)
NoRaw(text) == \A i \in 1..Len(text) : text[i] \notin Raw

\* C10: nothing materialized from a Record or from a shallow copy of it holds
\* the raw form of a Redactor argument: not what Message(), Data() and
\* Formatted() return, not what they cache; and once a Record is
\* materialized its Args hold the redacted forms.
C10_NeverRaw ==
    /\ \A r \in 1..Len(recs) :
          /\ NoRaw(recs[r].message.text)
          /\ NoRaw(recs[r].formatted)
          /\ NoRaw(lastMsg[r].text)
          /\ (~recs[r].message.nil) => NoRaw(arrays[recs[r].args])
    /\ lastOp.op \in {"Message", "Formatted"} => NoRaw(lastOp.out)
    /\ lastOp.op = "Data" => NoRaw(lastOp.out.Message)

\* Formatted() is the first call on a shallow copy whose Args hold raw
\* Redactor values: the line holds their redacted forms
C10_Witness ==
    /\ lastOp.op = "Formatted"
    /\ lastOp.first
    /\ recs[lastOp.rec].copyOf # NoRecord
    /\ ~NoRaw(lastOp.argsBefore)
    /\ NoRaw(lastOp.out)
    /\ \E i \in 1..Len(lastOp.out) : lastOp.out[i] = "***"

(***************************************************************************)
(* C5: a call of Log on a sink configured Async returns nil without doing  *)
(* the I/O itself, whatever the outcome of the I/O its goroutine does      *)
(* later.                                                                  *)
(***************************************************************************)
C5_AsyncLogReturnsNil ==
    \A c \in 1..Len(calls) :
        calls[c].Async =>
            /\ ~calls[c].err
            /\ calls[c].io = 0
            /\ calls[c].task # NoTask

\* an Async sink's Log returned nil and the I/O of its goroutine failed
C5_Witness ==
    \E c \in 1..Len(calls) :
        /\ calls[c].Async
        /\ ~calls[c].err
        /\ calls[c].task # NoTask
        /\ tasks[calls[c].task].pc = "done"
        /\ tasks[calls[c].task].failed

(***************************************************************************)
(* C6: every failed asynchronous delivery has, once its goroutine has      *)
(* ended, produced exactly one diagnostic, whatever the levels set.        *)
(***************************************************************************)
C6_OneDiagnosticPerFailure ==
    \A t \in 1..Len(tasks) :
        (tasks[t].pc = "done" /\ tasks[t].failed) => tasks[t].diags = 1

(***************************************************************************)
(* C7: the copy an asynchronous delivery works on is the Record as it was  *)
(* when Log was called: nothing the caller does to the Record after Log    *)
(* returned is in the copy.                                                *)
(***************************************************************************)
C7_SnapshotBeforeReturn ==
    \A t \in 1..Len(tasks) :
        tasks[t].pc # "launched" => tasks[t].taken = tasks[t].atCall

(***************************************************************************)
(* C8: no two concurrent deliveries are about to access one location of    *)
(* the record state (a cached message, a cached line, an element of Args), *)
(* one of them writing it.                                                 *)
(***************************************************************************)
Location(kind, id, idx) == [kind |-> kind, id |-> id, idx |-> idx]

\* the accesses of the next step of goroutine t
ArgsAccesses(t, writes) ==
    LET a == recs[tasks[t].snap].args
    IN  {[loc |-> Location("Args", a, i),
          write |-> writes /\ IsRedactor(arrays[a][i])] : i \in 1..Len(arrays[a])}

CacheWrites(t) ==
    {[loc |-> Location(f, tasks[t].snap, 0), write |-> TRUE] :
        f \in {"message", "formatted"}}

Accesses(t) ==
    IF tasks[t].pc = "launched"
    THEN {[loc |-> Location(f, tasks[t].rec, 0), write |-> FALSE] :
            f \in {"message", "formatted"}}
    ELSE IF tasks[t].pc = "deliver" /\ Materializes(tasks[t].sink, recs[tasks[t].snap])
    THEN ArgsAccesses(t, TRUE) \cup CacheWrites(t)
    ELSE IF tasks[t].pc = "deliver"
    THEN CacheWrites(t)
    ELSE {}

Conflict(t, u) ==
    \E a \in Accesses(t), b \in Accesses(u) :
        a.loc = b.loc /\ (a.write \/ b.write)

C8_NoConflictingAccess ==
    \A t, u \in 1..Len(tasks) : t # u => ~Conflict(t, u)

(***************************************************************************)
(* C11.                                                                    *)
(***************************************************************************)
\* the calls of NewFileBackend that return in this step having found their
\* path in fileMap
NewReturns == IF returned'.last # returned.last THEN {returned'.last} ELSE {}

NewHits == {r \in NewReturns : r.hit}

\* C11: a call of NewFileBackend that finds its path cached returns the cached
\* sink and no error, and opens no file, builds no sink, and changes neither
\* the cache nor any sink (Async, handle), whatever its options.
C11_CachedCallHasNoOtherEffect ==
    [][\A r \in NewHits :
          /\ r.path \in DOMAIN fileMap
          /\ r.b = fileMap[r.path]
          /\ ~r.err
          /\ opened' = opened
          /\ instances' = instances
          /\ fileMap' = fileMap]_vars

\* a call found the path cached though its options differ in Async and in
\* Truncate from those the sink was built with, and the sink and its file are
\* as the first caller's options made them
C11_Witness ==
    \E r \in {returned.last} :
        /\ r.hit
        /\ r.b # NoInstance
        /\ r.options.Async # instances[r.b].Async
        /\ r.options.Truncate
        /\ ~opened[instances[r.b].handle].truncated
        /\ Len(opened) = 1

(***************************************************************************)
(* C12.                                                                    *)
(***************************************************************************)
\* the calls of NewFileBackend that return an error in this step
NewFailures == {r \in NewReturns : r.err}

\* C12: a call of NewFileBackend whose open fails returns the error and no
\* sink and leaves the cache, the sinks and the open files as they were; a
\* call for the same path that begins later and does not fail returns a sink
\* that is in the cache and was built on a file opened for that path.
C12_FailedOpenLeavesCache ==
    [][/\ \A r \in NewFailures :
             /\ r.b = NoInstance
             /\ ~r.hit
             /\ fileMap' = fileMap
             /\ instances' = instances
             /\ opened' = opened
       /\ \A r \in NewReturns :
             (r.retry /\ ~r.err) =>
                /\ r.b \in 1..Len(instances')
                /\ instances'[r.b].path = r.path
                /\ opened'[instances'[r.b].handle].path = r.path
                /\ r.hit \/ fileMap'[r.path] = r.b]_vars

\* after a failed call for a path, a later call for it has opened the file,
\* built a sink, cached it and returned it
C12_Witness ==
    \E r \in {returned.last} :
        /\ r.retry /\ ~r.err /\ ~r.hit
        /\ HasFailed(r.path)
        /\ r.path \in DOMAIN fileMap
        /\ fileMap[r.path] = r.b
        /\ instances[r.b].path = r.path

(***************************************************************************)
(* C13.                                                                    *)
(***************************************************************************)
\* C13 as stated: of any two records of the process, the one created later
\* has the larger ID, whatever log calls and Resets interleave.
C13_IdsIncreaseForLifetime ==
    \A i, j \in 1..Len(created) : i < j => created[i] < created[j]

\* C13, amended: of any two records created since the last Reset, the one
\* created later has the larger ID (so no two of them carry the same ID),
\* whatever log calls interleave.
C13_IdsIncreaseSinceReset ==
    \A i, j \in 1..Len(SinceReset) : i < j => SinceReset[i] < SinceReset[j]

\* records were created, Reset ran, and two more records were created after it
C13_Witness ==
    /\ epochStart >= 1
    /\ Len(SinceReset) >= 2
    /\ \E i \in 1..epochStart : created[i] = SinceReset[1]

(***************************************************************************)
(* C14.                                                                    *)
(***************************************************************************)
\* the call made on the proxy in this step, if one is
ProxyCalls == IF proxy'.last # proxy.last THEN {proxy'.last} ELSE {}

\* C14: every call on the proxy is applied to the backend that is default at
\* the time of the call and yields what that backend yields: IsEnabledFor and
\* GetLevel answer from its table, SetLevel upserts into its table, Log
\* delivers to its sinks and returns its error.
C14_ProxyForwardsToCurrent ==
    [][\A c \in ProxyCalls :
          /\ c.target = given
          /\ c.op = "IsEnabledFor" =>
                c.result = LeveledIsEnabledFor(levels, c.level, c.module)
          /\ c.op = "GetLevel" => c.result = LeveledGetLevel(levels, c.module)
          /\ c.op = "SetLevel" =>
                levels' = LeveledSetLevel(levels, c.level, c.module)
          /\ c.op = "Log" => c.result = BackendLog(backend, c.failing)]_vars

\* the proxy was made, SetBackend then replaced the default backend, and a Log
\* through the proxy reached the sinks of the new one
C14_Witness ==
    /\ proxy.made
    /\ proxy.at # given
    /\ proxy.last.op = "Log"
    /\ proxy.last.target = given
    /\ proxy.last.result.delivered = given
    /\ Len(given) >= 2

(***************************************************************************)
(* C15.                                                                    *)
(***************************************************************************)
\* whether call k of caller p has been written
Written(p, k) ==
    \E i \in 1..Len(sync.written) : sync.written[i].proc = p /\ sync.written[i].k = k

\* C15: on one synchronous sink the writes of each caller are in the order of
\* its calls, a call is written before the caller's next call begins, and a
\* call that has returned was written and returned the write's result,
\* whatever other callers interleave.
C15_PerCallerWriteOrder ==
    /\ \A i, j \in 1..Len(sync.written) :
          (i < j /\ sync.written[i].proc = sync.written[j].proc)
              => sync.written[i].k < sync.written[j].k
    /\ \A p \in Procs : \A k \in 1..(sync.n[p] - 1) : Written(p, k)
    /\ \A r \in sync.rets :
          \E i \in 1..Len(sync.written) :
              /\ sync.written[i].proc = r.proc
              /\ sync.written[i].k = r.k
              /\ r.err = ~sync.written[i].ok

\* a caller's two calls were written with another caller's write between
\* them, and one of the calls returned its write's error
C15_Witness ==
    \E p, q \in Procs : \E i, j, m \in 1..Len(sync.written) :
        /\ p # q /\ i < j /\ j < m
        /\ sync.written[i].proc = p /\ sync.written[m].proc = p
        /\ sync.written[j].proc = q
        /\ ~sync.written[i].ok
        /\ [proc |-> p, k |-> sync.written[i].k, err |-> TRUE] \in sync.rets

(***************************************************************************)
(* C16.                                                                    *)
(***************************************************************************)
\* C16: Print on a sink with Async set returns nil, does no I/O within the
\* call and starts a goroutine that sends the arguments as they were when
\* Print was called; Print on a sink with Async off does the I/O within the
\* call and starts no goroutine.
C16_AsyncPrintInBackground ==
    /\ \A c \in prints.calls :
          IF c.Async THEN ~c.err /\ c.io = 0 /\ c.task
          ELSE c.io = 1 /\ ~c.task
    /\ \A t \in 1..Len(prints.tasks) :
          prints.tasks[t].pc = "done" =>
              prints.tasks[t].sent = Sprint(prints.tasks[t].atCall)

(***************************************************************************)
(* C17.                                                                    *)
(***************************************************************************)
\* C17: whatever the interleaving of the GetOrCreateLogger calls, at most one
\* Log is made per module and every call that returns a logger for a module
\* returns the same one.
C17_OneLoggerPerModule ==
    /\ \A i, j \in 1..Len(registry.made) :
          registry.made[i] = registry.made[j] => i = j
    /\ \A r, q \in registry.rets :
          (r.module = q.module /\ r.log # NoLogger /\ q.log # NoLogger)
              => r.log = q.log

(***************************************************************************)
(* C18: Fatal and Fatalf of Log, Basic and LogPrefix end the process with  *)
(* exit status 1: the process ends only in a Fatal or Fatalf call, with    *)
(* status 1, and when CRITICAL is enabled for the module only after the    *)
(* record was handed to the backend's Log; the caller's next statement     *)
(* never runs after such a call; and every such call comes to the exit.    *)
(***************************************************************************)
C18_FatalExitsAfterLog ==
    /\ [](term.status = "exited"
            => /\ term.code = 1
               /\ term.method \in FatalMethods
               /\ LogIsEnabledFor(ExitModule, CRITICAL) => term.handed)
    /\ [](term.after \notin FatalMethods)
    /\ (term.pc = "logged" /\ term.method \in FatalMethods) ~> (term.status = "exited")

\* a LogPrefix's Fatalf has ended the process, the record handed over
C18_Witness ==
    /\ term.status = "exited"
    /\ term.code = 1
    /\ term.recv = "LogPrefix"
    /\ term.method = "Fatalf"
    /\ term.handed

(***************************************************************************)
(* C19: the value of the panic Panic and Panicf raise is the message of    *)
(* the record they logged.                                                 *)
(***************************************************************************)
C19_PanicValueIsMessage ==
    (term.status = "panicking" /\ term.handed) => term.value = term.message

(***************************************************************************)
(* C20: on a logger with a backend of its own whose threshold SetLogLevel  *)
(* has set, a log call delivers a record iff its level is enabled under    *)
(* that backend's table, and IsEnabledFor answers the same.                *)
(***************************************************************************)
C20_OwnBackendGates ==
    (own.last.op # "none" /\ own.last.have /\ own.last.set)
        => /\ own.last.answer = own.last.underOwn
           /\ own.last.op = "log" => own.last.delivered = own.last.underOwn

(***************************************************************************)
(* C21: a log call (Log.log or the writer of DefaultWriter) whose level    *)
(* the gate rejects consumes no ID, reaches no backend's Log and leaves    *)
(* the caller's arguments as they were; and a backend's Log is reached     *)
(* only by a call whose level the gate allowed.                            *)
(***************************************************************************)
C21_DisabledCallHasNoEffect ==
    [][(nCalls' # nCalls /\ own'.last.op = "log")
         => /\ ~LogIsEnabledFor(OwnModule, own'.last.level)
                => /\ sequenceNo' = sequenceNo
                   /\ ~own'.last.delivered
                   /\ own'.last.to = "none"
                   /\ own'.last.args = own'.last.passed
                   /\ lastCall' = lastCall
            /\ own'.last.delivered => LogIsEnabledFor(OwnModule, own'.last.level)]_vars

\* a call with a Redactor argument was rejected after one that was delivered
C21_Witness ==
    /\ own.last.op = "log"
    /\ own.last.kind = "DefaultWriter"
    /\ ~own.last.answer
    /\ ~LogIsEnabledFor(OwnModule, own.last.level)
    /\ own.last.passed = <<"user", "pw">>
    /\ own.last.args = own.last.passed
    /\ sequenceNo = 1

(***************************************************************************)
(* C22: every sink a NewFileBackend call returns has its file open when    *)
(* the call returns, also after Close on the sink cached for the path.     *)
(***************************************************************************)
C22_ReturnedSinkIsLive ==
    [][\A r \in NewReturns : ~r.err => LiveAfter(r.b)]_vars

(***************************************************************************)
(* C23: after every Reset() the counter is 0, so that the next record gets *)
(* ID 1, the default backend wraps the one stderr sink and allows every    *)
(* level for every module, timeNow is time.Now, and the logger registry    *)
(* and the file-sink cache are what they were before it.                   *)
(***************************************************************************)
C23_ResetRestoresDefaults ==
    [][Reset =>
         /\ sequenceNo' = 0
         /\ AtomicAddUint64(sequenceNo') = 1
         /\ given' = Stderr
         /\ \A l \in Levels, m \in ModuleNames : LeveledIsEnabledFor(levels', l, m)
         /\ LeveledGetLevel(levels', <<>>) = DEBUG
         /\ clock'.timeNow = "time.Now"
         /\ registry' = registry
         /\ fileMap' = fileMap /\ instances' = instances /\ opened' = opened]_vars

\* Reset has run after a record was created, a threshold set, a logger
\* registered, a file sink cached and the clock replaced
C23_Witness ==
    /\ sequenceNo = 0
    /\ nCalls > 0
    /\ lastCall.kind = "log" /\ lastCall.enabled
    /\ nSetLevel > 0
    /\ levels = LeveledSetLevel(EmptyTable, DEBUG, <<>>)
    /\ clock.replaced /\ clock.timeNow = "time.Now"
    /\ registry.made # <<>>
    /\ DOMAIN fileMap # {}

(***************************************************************************)
(* C24: Formatted is memoized per Record: the formatter of a Record is     *)
(* invoked at most once, whatever line it renders, the empty line too.     *)
(***************************************************************************)
C24_FormatterRunsOnce ==
    \A r \in 1..Len(recs) : fmtRuns[r] <= 1

(***************************************************************************)
(* C25: on a prefix logger, after SetPrefix(v) Prefix() returns v and the  *)
(* message of every record logged through it begins with v.                *)
(***************************************************************************)
C25_SetPrefixTakesEffect ==
    prefixer.set # NoPrefixSet
        => /\ prefixer.last.op = "Prefix" => prefixer.last.out = prefixer.set
           /\ (prefixer.last.op = "log" /\ prefixer.last.text # <<>>)
                 => Head(prefixer.last.text) = prefixer.set

=============================================================================
